---- MODULE Spec2Model ----
(***************************************************************************)
(* Model of jtfadump2: the experiment stepping loop of main(), the         *)
(* stepped experiment counters and their resume state, the ExceptionRetry  *)
(* decorator and the PID regulator.                                        *)
(***************************************************************************)
EXTENDS Integers, Sequences, FiniteSets, TLC

\* ------------------------------------------------------------------ bounds
NumNodes == 3
MaxStep == 2
MaxLen == 2       \* longest per-step parameter list of a single experiment
MaxDelay == 2     \* largest delay of a time experiment
MaxTime == 6      \* the clock stops being advanced here
MaxRetry == 3     \* largest configured attempt limit of the retry wrapper
MaxGain == 1      \* largest PID gain
MaxLimit == 1     \* output limits lie in -MaxLimit..MaxLimit
MaxInput == 2     \* inputs, targets and manual outputs lie in -MaxInput..MaxInput
MaxUpdates == 2   \* update steps counted per regulator
NumThreads == 2   \* threads that take connector locks
MaxKeyLen == 3    \* longest declared primary key tuple
MaxStack == 2     \* longest active experiment list given to a capture module
MaxEvents == 3    \* leaf events of a run seen by a capture module
MaxBound == 1     \* threshold bounds lie in -MaxBound..MaxBound
MaxPosts == 2     \* most post-process modules loaded
MaxExporters == 2 \* most export modules loaded
MaxInstances == 2 \* instances made of one class
MaxInterrupts == 2 \* KeyboardInterrupts during one wait

VARIABLES
    \* --- main(): the experiment forest and the stepping loop
    config_labels,        \* node -> the 'label' entry of its configuration
    parent,               \* node -> its parent node, 0 for a root
    step_maximum,         \* node -> _step_maximum() of its experiment
    experiment_nodes,     \* the node stack of the loop, first element is current
    active_experiments,   \* list built by the loop
    running_experiments,  \* list of experiments to stop in the finally block
    current_step,         \* node -> _current_step of its experiment
    next_step,            \* node -> _next_step of its experiment
    step_calls,           \* node -> number of step() calls made on it
    reset_calls,          \* node -> number of reset() calls made on it
    stop_calls,           \* sequence of experiments in the order stop() was called
    captures,             \* completed leaf events, in order
    fault,                \* where the exception was raised, "none" if none
    pc,                   \* position of main(): loop, finally, finished, raised
    \* --- one experiment object, and a second one it is resumed into
    exp,                  \* the experiment: configuration and fields
    fresh,                \* a new instance of the same configuration
    saved,                \* the tuple get_resume_state() returned
    resumed,              \* set_resume_state(saved) was applied to fresh
    now,                  \* time.time()
    exp_log,              \* what the calls on exp returned since the resume
    fresh_log,            \* what the same calls on fresh returned
    last,                 \* the last step() call on exp
    state_call,           \* the last get_state() call on exp
    \* --- one call of a function wrapped by ExceptionRetry
    retry_config,         \* the decorator's arguments and the instance attribute
    plan,                 \* what the i-th invocation of the wrapped f does
    retry,                \* the local "retry": the attempt limit in force
    attempt,              \* the loop variable
    calls,                \* invocations of f so far
    resets,               \* calls of the reset hook so far
    sleeps,               \* time.sleep(wait) calls so far
    returns,              \* values handed back to the caller so far
    raised,               \* kind of the exception that left the call
    rpc,                  \* position: init, loop, returned, raised, fell_off
    query,                \* one RS232Connector.query() call: its two retry loops
    \* --- one PIDRegulator, its thread, the process it controls
    pid_config,           \* gains p, i, d and the OutputLimit minimum, maximum
    target,               \* _target
    integral,             \* _integral
    in_previous,          \* _in_previous: <<>> for None, <<v>> for a value
    out_last,             \* _out_last: <<>> for None, <<v>> for a value
    input_value,          \* what the input function returned to the loop last
    hardware,             \* last value given to the output function, <<>> if none
    loop_written,         \* the values the loop gave to the output function
    updates,              \* update steps begun by the loop
    stop_set,             \* the _stop event
    thread,               \* the loop thread: unstarted, test, update, locked,
                          \* read, exited, died
    manual,               \* the call another thread is making on the regulator
    other_call,           \* the set_output() call a third thread is making
    lock,                 \* _lock: the owning thread and its hold count
    in_value,             \* the local in_value of the update step in progress
    update_target,        \* _target as it was when the update step took the lock
    stopper,              \* the thread calling stop(): position, block, and
                          \* where the loop thread was when stop() was called
    \* --- threads taking the locks of connectors that share one serial port
    parent_lock,          \* _lock of the shared RS232Connector
    own_lock,             \* thread -> _lock of its RS485AdapterConnector
    conn,                 \* thread -> its get_lock() call: position, connector,
                          \* keyword argument, acquire() result, found parent held
    \* --- one capture module over a run, and calls of get_primary_key_field()
    cap_config,           \* the module's configuration: raw
    cap_raw,              \* _raw
    cap_warnings,         \* warnings the module has logged
    cap_log,              \* per get_data() call: had the list a key, kind of data
    key_call,             \* the get_primary_key_field() call made, <<>> if none
    \* --- the post-processors and exporters of one leaf event
    pipe_config,          \* how many post-process and export modules are
                          \* loaded, and the class of the export modules
    pipe_files,           \* the lines of the file the exporters' generated
                          \* name points at, <<>> while there is no such file
    pipe_data,            \* the local "data" of main()
    pipe_index,           \* post-processors done
    pipe_last,            \* the last process() call, <<>> if none
    pipe_warnings,        \* warnings main() has logged
    pipe_exports,         \* the records given to export(), in order
    pipe_pc,              \* position: post, export, done, or the exception raised
    \* --- one call of TimeExperiment._interruptable_sleep
    sl_now,               \* time.time()
    sl_wake,              \* the argument wake_time
    sl_sleep_time,        \* the local sleep_time
    sl_until,             \* when the time.sleep() call in progress ends
    sl_interrupts,        \* KeyboardInterrupts so far
    sl_last,              \* the last interrupt or command, and when it came
    sl_pc,                \* position: ready, sleeping, prompt, returned, or the
                          \* exception raised
    \* --- module instantiation from the configuration
    global_module_config, \* whether the class has a defaults entry, and the entry
    loaded_defaults,      \* the entry as it was loaded from the configuration
    instances             \* the instances made so far: what each was given and
                          \* the dictionary it holds

orchVars == <<config_labels, parent, step_maximum, experiment_nodes, active_experiments,
              running_experiments, current_step, next_step, step_calls,
              reset_calls, stop_calls, captures, fault, pc>>

expVars == <<exp, fresh, saved, resumed, now, exp_log, fresh_log, last,
             state_call>>

retryVars == <<retry_config, plan, retry, attempt, calls, resets, sleeps,
               returns, raised, rpc, query>>

pidVars == <<pid_config, target, integral, in_previous, out_last, input_value,
             hardware, loop_written, updates, stop_set, thread, manual,
             other_call, lock, in_value, update_target, stopper>>

connVars == <<parent_lock, own_lock, conn>>

capVars == <<cap_config, cap_raw, cap_warnings, cap_log, key_call>>

pipeVars == <<pipe_config, pipe_data, pipe_index, pipe_last, pipe_warnings,
              pipe_exports, pipe_files, pipe_pc>>

sleepVars == <<sl_now, sl_wake, sl_sleep_time, sl_until, sl_interrupts, sl_last,
               sl_pc>>

confVars == <<global_module_config, loaded_defaults, instances>>

vars == <<orchVars, expVars, retryVars, pidVars, connVars, capVars, pipeVars,
          sleepVars, confVars>>

\* what the actions of one component leave alone
notOrch == <<expVars, retryVars, pidVars, connVars, capVars, pipeVars,
    sleepVars, confVars>>
notExp == <<orchVars, retryVars, pidVars, connVars, capVars, pipeVars,
    sleepVars, confVars>>
notRetry == <<orchVars, expVars, pidVars, connVars, capVars, pipeVars,
    sleepVars, confVars>>
notPid == <<orchVars, expVars, retryVars, connVars, capVars, pipeVars,
    sleepVars, confVars>>
notConn == <<orchVars, expVars, retryVars, pidVars, capVars, pipeVars,
    sleepVars, confVars>>
notCap == <<orchVars, expVars, retryVars, pidVars, connVars, pipeVars,
    sleepVars, confVars>>
notPipe == <<orchVars, expVars, retryVars, pidVars, connVars, capVars,
    sleepVars, confVars>>
notSleep == <<orchVars, expVars, retryVars, pidVars, connVars, capVars,
    pipeVars, confVars>>
notConf == <<orchVars, expVars, retryVars, pidVars, connVars, capVars,
    pipeVars, sleepVars>>

\* ------------------------------------------------------------- sequences
Range(s) == {s[i] : i \in 1..Len(s)}

RECURSIVE SortedSeq(_)
SortedSeq(S) ==
    IF S = {} THEN <<>>
    ELSE LET m == CHOOSE x \in S : \A y \in S : x <= y
         IN  <<m>> \o SortedSeq(S \ {m})

\* list.remove(x): drops the first occurrence of x
RECURSIVE ListRemove(_, _)
ListRemove(s, x) ==
    IF s = <<>> THEN <<>>
    ELSE IF Head(s) = x THEN Tail(s)
    ELSE <<Head(s)>> \o ListRemove(Tail(s), x)

\* ------------------------------------------------------ experiment forest
Nodes == 1..NumNodes

\* ExperimentNode.children: the child nodes in declaration order
Children(n) == SortedSeq({m \in Nodes : parent[m] = n})

\* the list experiment_nodes that main() builds from config['experiment']
Roots == SortedSeq({m \in Nodes : parent[m] = 0})

IsLeaf(n) == Children(n) = <<>>

\* the experiments from a root down to n, root first
RECURSIVE PathTo(_)
PathTo(n) == IF n = 0 THEN <<>> ELSE Append(PathTo(parent[n]), n)

RECURSIVE PathProduct(_)
PathProduct(n) == IF n = 0 THEN 1 ELSE step_maximum[n] * PathProduct(parent[n])

\* ------------------------------------------------- _SteppedExperiment
\* has_next(): self._next_step < self._step_maximum()
\* (variant: "<=" in place of "<")
HasNextMutLe(nxt, maximum) == nxt <= maximum
HasNext(nxt, maximum) == nxt < maximum

\* step(): the value _current_step takes, given the old _next_step
\* (variant: _next_step incremented before it is copied)
StepCurrentMutOff(nxt) == nxt + 1
StepCurrent(nxt) == nxt

\* step(): the value _next_step takes, given the old _next_step
StepNext(nxt) == nxt + 1


\* ------------------------------------------------------- Python values
\* A value as Python holds it: a number or a bool (depth 0, bools as 0/1),
\* or that value wrapped depth times in one-element tuples.
PyInt(n) == [type |-> "int", depth |-> 0, val |-> n]
PyFloat(t) == [type |-> "float", depth |-> 0, val |-> t]
PyBool(b) == [type |-> "bool", depth |-> 0, val |-> IF b THEN 1 ELSE 0]

\* state[:1] of a tuple whose first element is x: the one-element tuple (x,)
SliceFirst(x) == [x EXCEPT !.depth = @ + 1]

\* truth value: a non-empty tuple is true, a number is true unless zero
Truthy(x) == x.depth > 0 \/ x.val # 0

\* "x + number" is defined for numbers only
IsNumber(x) == x.depth = 0

\* ------------------------------------------------- experiment variants
CounterVariants == {"FlowExperiment", "HumidityExperiment",
                    "RegulatedTemperatureExperiment"}
TimeVariants == {"TimeExperiment", "SynchronisedTimeExperiment"}
Variants == CounterVariants \cup TimeVariants \cup {"_IncrementExperiment"}

\* the configured per-step parameter: a list, or a scalar kept as <<value>>
Params ==
    [isList : {TRUE}, values : UNION {[1..k -> 1..MaxDelay] : k \in 0..MaxLen}]
    \cup [isList : {FALSE}, values : [1..1 -> 1..MaxDelay]]

\* _step_maximum(): len() of a list, 1 for anything else;
\* _IncrementExperiment takes the configured number
\* (variant: the length for every class)
StepMaximumMutLen(e) == Len(e.param.values)
StepMaximum(e) ==
    IF e.variant = "_IncrementExperiment" THEN e.param.values[1]
    ELSE IF e.param.isList THEN Len(e.param.values) ELSE 1

\* __init__ of the variants; TimeExperiment reads the clock
NewExperiment(variant, param, sync, t) ==
    [variant       |-> variant,
     param         |-> param,
     sync_on_first |-> sync,
     current_step  |-> 0,
     next_step     |-> 0,
     timer         |-> PyFloat(IF variant \in TimeVariants THEN t ELSE 0),
     first         |-> PyBool(FALSE)]

\* _SteppedExperiment.step()
StepCounters(e) ==
    [e EXCEPT !.current_step = StepCurrent(e.next_step),
              !.next_step = StepNext(e.next_step)]

\* _SteppedExperiment.reset(); every variant only calls this one
\* (variant: the timer and the first-step flag are set back as well)
ResetMutAll(e) ==
    [e EXCEPT !.current_step = 0, !.next_step = 0, !.timer = PyFloat(0),
              !.first = PyBool(FALSE)]
Reset(e) == [e EXCEPT !.current_step = 0, !.next_step = 0]

\* the exception raised by self._<parameter>[self._get_step()], "ok" if none
IndexParam(e) ==
    IF ~e.param.isList THEN "TypeError"
    ELSE IF e.current_step >= Len(e.param.values) THEN "IndexError"
    ELSE "ok"

\* the exception raised by _get_delay(), "ok" if none
DelayError(e) ==
    IF e.param.isList /\ e.current_step >= Len(e.param.values)
    THEN "IndexError" ELSE "ok"

\* _get_delay() where it returns
\* (variant: the first delay on every step)
GetDelayMutFirst(e) == e.param.values[1]
GetDelay(e) ==
    IF e.param.isList THEN e.param.values[e.current_step + 1]
    ELSE e.param.values[1]

\* the wake field of a step() that computed no wake time
NoWake == 0 - 1

StepResult(e, outcome, wake, synced) ==
    [e |-> e, outcome |-> outcome, wake |-> wake, synced |-> synced]

\* FlowExperiment.step(), HumidityExperiment.step(),
\* RegulatedTemperatureExperiment.step()
StepCounterVariant(e) ==
    LET e1 == StepCounters(e)
    IN  StepResult(e1, IndexParam(e1), NoWake, FALSE)

\* TimeExperiment.step() called at time t
StepTime(e, t) ==
    LET e1 == StepCounters(e)
        e2 == [e1 EXCEPT !.timer = PyFloat(t)]
    IN  IF DelayError(e2) # "ok"
        THEN StepResult(e2, DelayError(e2), NoWake, FALSE)
        ELSE StepResult(e2, "ok", t + GetDelay(e2), FALSE)

\* "if self._sync_on_first and not self._first"
\* (variant: "if self._sync_on_first")
SyncNowMutAlways(e) == e.sync_on_first
SyncNow(e) == e.sync_on_first /\ ~Truthy(e.first)

\* SynchronisedTimeExperiment.step() called at time t
StepSynchronised(e, t) ==
    LET e1 == StepCounters(e)
        sync == SyncNow(e1)
        e2 == IF sync THEN [e1 EXCEPT !.timer = PyFloat(t)] ELSE e1
    IN  IF DelayError(e2) # "ok"
        THEN StepResult(e2, DelayError(e2), NoWake, sync)
        ELSE IF ~IsNumber(e2.timer)
        THEN StepResult(e2, "TypeError", NoWake, sync)
        ELSE StepResult([e2 EXCEPT !.timer.val = @ + GetDelay(e2),
                                   !.first = PyBool(TRUE)],
                        "ok", e2.timer.val + GetDelay(e2), sync)

\* step() of the experiment's class, called at time t
Step(e, t) ==
    IF e.variant = "TimeExperiment" THEN StepTime(e, t)
    ELSE IF e.variant = "SynchronisedTimeExperiment" THEN StepSynchronised(e, t)
    ELSE IF e.variant = "_IncrementExperiment"
    THEN StepResult(StepCounters(e), "ok", NoWake, FALSE)
    ELSE StepCounterVariant(e)

\* the clock when step() called at t returns: it sleeps until the wake time
\* when that lies ahead
TimeAfter(r, t) == IF r.wake > t THEN r.wake ELSE t

\* _SteppedExperiment.get_resume_state()
GetResumeCounters(e) == <<PyInt(e.current_step), PyInt(e.next_step)>>

\* TimeExperiment.get_resume_state()
GetResumeTime(e) == <<e.timer>> \o GetResumeCounters(e)

\* SynchronisedTimeExperiment.get_resume_state()
GetResumeSynchronised(e) == <<e.first>> \o GetResumeTime(e)

GetResumeState(e) ==
    IF e.variant = "TimeExperiment" THEN GetResumeTime(e)
    ELSE IF e.variant = "SynchronisedTimeExperiment" THEN GetResumeSynchronised(e)
    ELSE GetResumeCounters(e)

\* _SteppedExperiment.set_resume_state(state)
\* (variant: the two fields unpacked in the other order)
SetResumeCountersMutSwap(e, state) ==
    [e EXCEPT !.current_step = state[2].val, !.next_step = state[1].val]
SetResumeCounters(e, state) ==
    [e EXCEPT !.current_step = state[1].val, !.next_step = state[2].val]

\* TimeExperiment.set_resume_state(state): self._timer = state[:1]
SetResumeTime(e, state) ==
    SetResumeCounters([e EXCEPT !.timer = SliceFirst(state[1])], Tail(state))

\* SynchronisedTimeExperiment.set_resume_state(state): self._first = state[:1]
SetResumeSynchronised(e, state) ==
    SetResumeTime([e EXCEPT !.first = SliceFirst(state[1])], Tail(state))

SetResumeState(e, state) ==
    IF e.variant = "TimeExperiment" THEN SetResumeTime(e, state)
    ELSE IF e.variant = "SynchronisedTimeExperiment" THEN SetResumeSynchronised(e, state)
    ELSE SetResumeCounters(e, state)

\* self._label, popped from the configuration by Experiment.__init__
LabelNames == <<"a", "b", "c", "d">>
Labels == {LabelNames[i] : i \in 1..NumNodes}

\* get_state(): how it ends, and the keys of the dict it returns, each the
\* pieces of self._label + '_' + k. _get_state() of the class runs first;
\* SynchronisedTimeExperiment returns the result of dict.update(), None,
\* and None.items() raises
GetState(e, label) ==
    LET error == IF e.variant \in CounterVariants THEN IndexParam(e)
                 ELSE DelayError(e)
        fields ==
            IF e.variant = "FlowExperiment"
            THEN {"flow_rate_step", "target_flow", "flow"}
            ELSE IF e.variant = "HumidityExperiment"
            THEN {"vgen_temperature_step", "relative_humidity",
                  "output_temperature", "condenser_temperature",
                  "condenser_temperature_target", "saturator_temperature",
                  "saturator_temperature_target", "external_temperature"}
            ELSE IF e.variant = "RegulatedTemperatureExperiment"
            THEN {"temperature_step", "temperature", "temperature_target",
                  "supply_voltage", "supply_current"}
            ELSE IF e.variant = "_IncrementExperiment"
            THEN {"count_increment"}
            ELSE {"delay_step", "iteration", "step_start", "step_time", "delay"}
    IN  IF error # "ok" THEN [outcome |-> error, keys |-> {}]
        ELSE IF e.variant = "SynchronisedTimeExperiment"
        THEN [outcome |-> "AttributeError", keys |-> {}]
        ELSE [outcome |-> "ok", keys |-> {<<label, "_", k>> : k \in fields}]

\* no get_state() call was made yet
NoStateCall ==
    [label |-> "", stepped |-> FALSE,
     result |-> [outcome |-> "not called", keys |-> {}]]

\* what a caller observes of one step(): how it ended, the step index, the
\* wake time it computed, whether it re-anchored, and has_next() afterwards
Observed(r) ==
    [outcome  |-> r.outcome,
     index    |-> r.e.current_step,
     wake     |-> r.wake,
     synced   |-> r.synced,
     has_next |-> HasNext(r.e.next_step, StepMaximum(r.e))]

\* ----------------------------------------------------------------- main()
\* "if x not in l: l.append(x)"
\* (variant: appended without the test)
AppendIfAbsentMutAlways(l, x) == Append(l, x)
AppendIfAbsent(l, x) == IF x \in Range(l) THEN l ELSE Append(l, x)

\* experiment_nodes[:0] = current_node.children
\* (variant: the children appended at the back)
SpliceMutBack(children, stack) == stack \o children
Splice(children, stack) == children \o stack

\* the list of experiments whose get_state() is merged into the record
\* and that is handed to every capture module
CaptureEvent(leaf, active, cur) ==
    [leaf   |-> leaf,
     active |-> active,
     steps  |-> [i \in 1..Len(active) |-> cur[active[i]]]]

\* places of one loop iteration where a call can raise; step() of a Time
\* experiment also raises the KeyboardInterrupt that the "stop" command of
\* _interruptable_sleep re-raises
StepFaults == {"step", "KeyboardInterrupt"}
LeafFaults == {"get_state", "capture", "post_process", "export"}

\* the configuration file as main() has loaded it: the experiment entries
\* with their children and labels (labels up to renaming); no experiment
\* object exists yet
OrchInit ==
    /\ config_labels \in {l \in [Nodes -> Labels] :
            \A n \in Nodes : \E i \in 1..n : l[n] = LabelNames[i]}
    /\ parent \in {p \in [Nodes -> 0..NumNodes] : \A n \in Nodes : p[n] < n}
    /\ step_maximum = [n \in Nodes |-> 0]
    /\ experiment_nodes = <<>>
    /\ active_experiments = <<>>
    /\ running_experiments = <<>>
    /\ current_step = [n \in Nodes |-> 0]
    /\ next_step = [n \in Nodes |-> 0]
    /\ step_calls = [n \in Nodes |-> 0]
    /\ reset_calls = [n \in Nodes |-> 0]
    /\ stop_calls = <<>>
    /\ captures = <<>>
    /\ fault = "none"
    /\ pc = "build"

\* lines 211-220: _generate_experiment_tree on every root entry. Each
\* experiment pops its label out of its configuration and keeps its
\* parameter list, of any length; no label is compared with another one
GenerateExperimentForest ==
    /\ pc = "build"
    /\ experiment_nodes' = Roots
    /\ config_labels' = <<>>
    /\ step_maximum' \in [Nodes -> 0..MaxStep]
    /\ pc' = "loop"
    /\ UNCHANGED <<parent, active_experiments,
                   running_experiments, current_step, next_step, step_calls,
                   reset_calls, stop_calls, captures, fault>>
    /\ UNCHANGED notOrch

Current == Head(experiment_nodes)

CurrentHasNext == HasNext(next_step[Current], step_maximum[Current])

\* lines 244-253: has_next() holds, the experiment is listed and stepped
Stepped(n) ==
    /\ active_experiments' = AppendIfAbsent(active_experiments, n)
    /\ running_experiments' = AppendIfAbsent(running_experiments, n)
    /\ current_step' = [current_step EXCEPT ![n] = StepCurrent(next_step[n])]
    /\ next_step' = [next_step EXCEPT ![n] = StepNext(next_step[n])]
    /\ step_calls' = [step_calls EXCEPT ![n] = @ + 1]

\* one iteration on a node with children: step, then push the children
StepBranch ==
    /\ pc = "loop" /\ experiment_nodes # <<>>
    /\ CurrentHasNext /\ ~IsLeaf(Current)
    /\ Stepped(Current)
    /\ experiment_nodes' = Splice(Children(Current), experiment_nodes)
    /\ UNCHANGED <<parent, step_maximum, reset_calls, stop_calls, captures, fault, pc>>
    /\ UNCHANGED config_labels
    /\ UNCHANGED notOrch

\* one iteration on a leaf: step, then capture, post-process and export
StepLeaf ==
    /\ pc = "loop" /\ experiment_nodes # <<>>
    /\ CurrentHasNext /\ IsLeaf(Current)
    /\ Stepped(Current)
    /\ captures' = Append(captures,
            CaptureEvent(Current, active_experiments', current_step'))
    /\ UNCHANGED <<parent, step_maximum, experiment_nodes, reset_calls,
                   stop_calls, fault, pc>>
    /\ UNCHANGED config_labels
    /\ UNCHANGED notOrch

\* one iteration in which a call raises: step() itself on any node, or
\* get_state(), a capture module, a post-processor or an exporter on a leaf
StepRaises ==
    /\ pc = "loop" /\ experiment_nodes # <<>>
    /\ CurrentHasNext
    /\ Stepped(Current)
    /\ \E f \in StepFaults \cup (IF IsLeaf(Current) THEN LeafFaults ELSE {}) :
            fault' = f
    /\ pc' = "finally"
    /\ UNCHANGED <<parent, step_maximum, experiment_nodes, reset_calls,
                   stop_calls, captures>>
    /\ UNCHANGED config_labels
    /\ UNCHANGED notOrch

\* lines 293-299: has_next() is false
Exhausted ==
    /\ pc = "loop" /\ experiment_nodes # <<>>
    /\ ~CurrentHasNext
    /\ experiment_nodes' = Tail(experiment_nodes)
    /\ IF Current \in Range(active_experiments)
         THEN /\ active_experiments' = ListRemove(active_experiments, Current)
              /\ current_step' = [current_step EXCEPT ![Current] = 0]
              /\ next_step' = [next_step EXCEPT ![Current] = 0]
              /\ reset_calls' = [reset_calls EXCEPT ![Current] = @ + 1]
              /\ UNCHANGED <<fault, pc>>
         ELSE \* list.remove raises ValueError
              /\ fault' = "remove"
              /\ pc' = "finally"
              /\ UNCHANGED <<active_experiments, current_step, next_step, reset_calls>>
    /\ UNCHANGED <<parent, step_maximum, running_experiments, step_calls,
                   stop_calls, captures>>
    /\ UNCHANGED config_labels
    /\ UNCHANGED notOrch

\* line 240: the node stack is empty, the loop ends normally
LoopExit ==
    /\ pc = "loop" /\ experiment_nodes = <<>>
    /\ pc' = "finally"
    /\ UNCHANGED <<parent, step_maximum, experiment_nodes, active_experiments,
                   running_experiments, current_step, next_step, step_calls,
                   reset_calls, stop_calls, captures, fault>>
    /\ UNCHANGED config_labels
    /\ UNCHANGED notOrch

\* line 307: the list the finally block iterates over
\* (variant: active_experiments)
ToStopMutActive == active_experiments
ToStop == running_experiments

\* lines 305-308: the next e.stop() of the finally block
StopNext ==
    /\ pc = "finally"
    /\ Len(stop_calls) < Len(ToStop)
    /\ stop_calls' = Append(stop_calls, ToStop[Len(stop_calls) + 1])
    /\ UNCHANGED <<parent, step_maximum, experiment_nodes, active_experiments,
                   running_experiments, current_step, next_step, step_calls,
                   reset_calls, captures, fault, pc>>
    /\ UNCHANGED config_labels
    /\ UNCHANGED notOrch

\* the finally block is done: main() returns, or the exception propagates
Leave ==
    /\ pc = "finally"
    /\ Len(stop_calls) = Len(ToStop)
    /\ pc' = IF fault = "none" THEN "finished" ELSE "raised"
    /\ UNCHANGED <<parent, step_maximum, experiment_nodes, active_experiments,
                   running_experiments, current_step, next_step, step_calls,
                   reset_calls, stop_calls, captures, fault>>
    /\ UNCHANGED config_labels
    /\ UNCHANGED notOrch

Next ==
    \/ GenerateExperimentForest
    \/ StepBranch
    \/ StepLeaf
    \/ StepRaises
    \/ Exhausted
    \/ LoopExit
    \/ StopNext
    \/ Leave

\* --------------------------------------------- one experiment, resumed
ExpInit ==
    /\ now \in 0..1
    /\ \E v \in Variants, p \in Params, sy \in BOOLEAN :
        \* FlowExperiment.__init__ takes len(flow_rate[0]): a non-empty list;
        \* sync_on_first is read by SynchronisedTimeExperiment only
        /\ v = "FlowExperiment" => p.isList /\ p.values # <<>>
        /\ sy => v = "SynchronisedTimeExperiment"
        \* _IncrementExperiment takes int() of its parameter: a number
        /\ v = "_IncrementExperiment" => ~p.isList
        /\ exp = NewExperiment(v, p, sy, now)
        /\ fresh = NewExperiment(v, p, sy, now)
    /\ saved = <<>>
    /\ resumed = FALSE
    /\ exp_log = <<>>
    /\ fresh_log = <<>>
    /\ last = [called |-> FALSE, had_next |-> FALSE, outcome |-> "ok",
               wake |-> NoWake]
    /\ state_call = NoStateCall

\* time passes between two calls
ExpTick ==
    /\ now < MaxTime
    /\ now' = now + 1
    /\ UNCHANGED <<exp, fresh, saved, resumed, exp_log, fresh_log, last>>
    /\ UNCHANGED state_call
    /\ UNCHANGED notExp

\* exp.step(), whatever has_next() says; one call past the end at most
ExpStep ==
    /\ ~resumed
    /\ exp.next_step <= StepMaximum(exp)
    /\ LET r == Step(exp, now) IN
        /\ TimeAfter(r, now) <= MaxTime
        /\ exp' = r.e
        /\ now' = TimeAfter(r, now)
        /\ last' = [called   |-> TRUE,
                    had_next |-> HasNext(exp.next_step, StepMaximum(exp)),
                    outcome  |-> r.outcome,
                    wake     |-> r.wake]
    /\ UNCHANGED <<fresh, saved, resumed, exp_log, fresh_log>>
    /\ UNCHANGED state_call
    /\ UNCHANGED notExp

\* exp.reset()
ExpReset ==
    /\ ~resumed
    /\ exp.next_step > 0
    /\ exp' = Reset(exp)
    /\ UNCHANGED <<fresh, saved, resumed, now, exp_log, fresh_log, last>>
    /\ UNCHANGED state_call
    /\ UNCHANGED notExp

\* a new instance of the same configuration is given exp's resume state
ExpResume ==
    /\ ~resumed
    /\ saved' = GetResumeState(exp)
    /\ fresh' = SetResumeState(
            NewExperiment(exp.variant, exp.param, exp.sync_on_first, now), saved')
    /\ resumed' = TRUE
    /\ UNCHANGED <<exp, now, exp_log, fresh_log, last>>
    /\ UNCHANGED state_call
    /\ UNCHANGED notExp

\* after the resume: the same step() call on the original and on the
\* resumed instance, at the same clock reading
ExpStepBoth ==
    /\ resumed
    /\ exp.next_step <= StepMaximum(exp)
    /\ LET r == Step(exp, now)
           q == Step(fresh, now)
       IN
        /\ TimeAfter(r, now) <= MaxTime
        /\ exp' = r.e
        /\ fresh' = q.e
        /\ exp_log' = Append(exp_log, Observed(r))
        /\ fresh_log' = Append(fresh_log, Observed(q))
        /\ now' = TimeAfter(r, now)
        /\ last' = [called   |-> TRUE,
                    had_next |-> HasNext(exp.next_step, StepMaximum(exp)),
                    outcome  |-> r.outcome,
                    wake     |-> r.wake]
    /\ UNCHANGED <<saved, resumed>>
    /\ UNCHANGED state_call
    /\ UNCHANGED notExp

\* exp.get_state(), as main() calls it for a leaf event; stepped tells
\* whether the last step() before the call returned
ExpGetState ==
    /\ ~resumed
    /\ \E l \in {LabelNames[1], LabelNames[2]} :
        state_call' = [label   |-> l,
                       stepped |-> last.called /\ last.outcome = "ok",
                       result  |-> GetState(exp, l)]
    /\ UNCHANGED <<exp, fresh, saved, resumed, now, exp_log, fresh_log, last>>
    /\ UNCHANGED notExp

NextExp ==
    \/ ExpGetState
    \/ ExpTick
    \/ ExpStep
    \/ ExpReset
    \/ ExpResume
    \/ ExpStepBoth

\* ------------------------------------------------------ ExceptionRetry
\* ExceptionRetry.default_retry
default_retry == 3

\* lines 58-64: the attempt limit of this call. cfg.retry is the decorator's
\* retry argument, None taken as 0: "if self._retry" is false for both
ResolveRetry(cfg) ==
    IF cfg.has_retry_attribute THEN cfg.attribute_value
    ELSE IF cfg.retry # 0 THEN cfg.retry
    ELSE default_retry

\* line 67
\* (variant: off by one)
AttemptRemainMutOff(limit, n) == (limit - 2) - n
AttemptRemain(limit, n) == (limit - 1) - n

\* line 74: the exception is of a configured type or a subclass of one
\* (variant: every exception taken as expected)
IsTransientMutAll(kind) == kind \in {"transient", "other"}
IsTransient(kind) == kind = "transient"

Outcomes == {"ok", "transient", "other"}

RetryInit ==
    /\ retry_config \in [retry               : 0..MaxRetry,
                         has_retry_attribute : BOOLEAN,
                         attribute_value     : 0..MaxRetry,
                         has_reset           : BOOLEAN,
                         has_wait            : BOOLEAN]
    /\ ~retry_config.has_retry_attribute => retry_config.attribute_value = 0
    /\ plan \in [1..(MaxRetry + 1) -> Outcomes]
    /\ retry = 0
    /\ attempt = 0
    /\ calls = 0
    /\ resets = 0
    /\ sleeps = 0
    /\ returns = 0
    /\ raised = "none"
    /\ rpc = "init"
    /\ query = <<>>

\* lines 57-64: the wrapped function is called
RetryCall ==
    /\ rpc = "init"
    /\ retry' = ResolveRetry(retry_config)
    /\ rpc' = "loop"
    /\ UNCHANGED <<retry_config, plan, attempt, calls, resets, sleeps,
                   returns, raised>>
    /\ UNCHANGED query
    /\ UNCHANGED notRetry

\* lines 66-128: one iteration of "for attempt in range(retry)"
RetryAttempt ==
    /\ rpc = "loop"
    /\ attempt < retry
    /\ calls' = calls + 1
    /\ LET result == plan[calls + 1] IN
        IF result = "ok"
        THEN /\ returns' = returns + 1
             /\ rpc' = "returned"
             /\ UNCHANGED <<attempt, resets, sleeps, raised>>
        ELSE IF IsTransient(result) /\ AttemptRemain(retry, attempt) # 0
        THEN /\ resets' = IF retry_config.has_reset THEN resets + 1 ELSE resets
             /\ sleeps' = IF retry_config.has_wait THEN sleeps + 1 ELSE sleeps
             /\ attempt' = attempt + 1
             /\ UNCHANGED <<returns, raised, rpc>>
        ELSE /\ raised' = result
             /\ rpc' = "raised"
             /\ UNCHANGED <<attempt, resets, sleeps, returns>>
    /\ UNCHANGED <<retry_config, plan, retry>>
    /\ UNCHANGED query
    /\ UNCHANGED notRetry

\* range(retry) is used up without a return or a raise: func ends, the
\* caller gets None
RetryFallOff ==
    /\ rpc = "loop"
    /\ attempt >= retry
    /\ rpc' = "fell_off"
    /\ UNCHANGED <<retry_config, plan, retry, attempt, calls, resets, sleeps,
                   returns, raised>>
    /\ UNCHANGED query
    /\ UNCHANGED notRetry

NextRetry ==
    \/ RetryCall
    \/ RetryAttempt
    \/ RetryFallOff

\* ---- RS232Connector.query(): a retry-wrapped method calling another
\* "self" of the call: _retry_attempt (the class attribute is 3, an instance
\* or subclass may set another), and the transport, whose first fail_reads
\* reads raise SerialException and whose later reads return
QueryInit ==
    /\ query \in [pc : {"init"}, retry_attempt : 0..MaxRetry,
                   fail_reads : 0..(MaxRetry * MaxRetry),
                   outer : {0}, inner : {0}, reads : {0}, writes : {0},
                   resets : {0}]
    /\ retry_config = <<>> /\ plan = <<>> /\ retry = 0 /\ attempt = 0
    /\ calls = 0 /\ resets = 0 /\ sleeps = 0 /\ returns = 0
    /\ raised = "none" /\ rpc = "idle"

\* query(data) is called: rs232retry's func reads the limit from
\* self._retry_attempt (util.py lines 58-64)
QueryCall ==
    /\ query.pc = "init"
    /\ query' = [query EXCEPT !.pc = "outer"]
    /\ UNCHANGED <<retry_config, plan, retry, attempt, calls, resets, sleeps,
                   returns, raised, rpc>>
    /\ UNCHANGED notRetry

\* one iteration of the loop around query(): lines 106-107 write the data
\* and flush, then line 108 calls self.read(), itself wrapped by rs232retry
QueryOuterAttempt ==
    /\ query.pc = "outer"
    /\ query.outer < query.retry_attempt
    /\ query' = [query EXCEPT !.writes = @ + 1, !.inner = 0, !.pc = "inner"]
    /\ UNCHANGED <<retry_config, plan, retry, attempt, calls, resets, sleeps,
                   returns, raised, rpc>>
    /\ UNCHANGED notRetry

\* range(retry) of the loop around query() is empty: func returns None
QueryOuterFallOff ==
    /\ query.pc = "outer"
    /\ query.outer >= query.retry_attempt
    /\ query' = [query EXCEPT !.pc = "fell_off"]
    /\ UNCHANGED <<retry_config, plan, retry, attempt, calls, resets, sleeps,
                   returns, raised, rpc>>
    /\ UNCHANGED notRetry

\* one iteration of the loop around read(): the transport read. A failure
\* with attempts left resets the connector, waits and goes round; the last
\* failure is re-raised out of read() into the loop around query(), whose
\* handler does the same with its own attempt count.
QueryReadAttempt ==
    /\ query.pc = "inner"
    /\ query.inner < query.retry_attempt
    /\ LET n == query.retry_attempt
           failed == query.reads + 1 <= query.fail_reads
       IN
        IF ~failed
        THEN query' = [query EXCEPT !.reads = @ + 1, !.pc = "returned"]
        ELSE IF AttemptRemain(n, query.inner) # 0
        THEN query' = [query EXCEPT !.reads = @ + 1, !.resets = @ + 1,
                                    !.inner = @ + 1]
        ELSE IF AttemptRemain(n, query.outer) # 0
        THEN query' = [query EXCEPT !.reads = @ + 1, !.resets = @ + 1,
                                    !.outer = @ + 1, !.pc = "outer"]
        ELSE query' = [query EXCEPT !.reads = @ + 1, !.pc = "raised"]
    /\ UNCHANGED <<retry_config, plan, retry, attempt, calls, resets, sleeps,
                   returns, raised, rpc>>
    /\ UNCHANGED notRetry

NextQuery ==
    \/ QueryCall
    \/ QueryOuterAttempt
    \/ QueryOuterFallOff
    \/ QueryReadAttempt

\* -------------------------------------------------------- PIDRegulator
\* OutputLimit.clamp(value)
\* (variant: the upper limit not applied)
ClampMutNoUpper(value, minimum, maximum) ==
    IF value < minimum THEN minimum ELSE value
Clamp(value, minimum, maximum) ==
    IF value < minimum THEN minimum
    ELSE IF value > maximum THEN maximum
    ELSE value

\* what the input function may return
Values == (0 - MaxInput)..MaxInput

\* the arguments of set_target() and of a manual set_output()
Setpoints == {0 - MaxInput, 0, MaxInput}

\* threading.RLock: acquire() goes through when the lock is free or already
\* held by the calling thread
\* (variant: acquire() never waits)
CanAcquireMutAlways(l, who) == TRUE
CanAcquire(l, who) == l.owner \in {"none", who}

Acquire(l, who) == [owner |-> who, count |-> l.count + 1]

Release(l) ==
    IF l.count = 1 THEN [owner |-> "none", count |-> 0]
    ELSE [l EXCEPT !.count = @ - 1]

\* Thread.join() returns once the thread has ended
\* (variant: join() does not wait)
JoinedMutAny(t) == TRUE
Joined(t) == t \in {"exited", "died"}

NoCall == [op |-> "none", value |-> 0, locked |-> FALSE]

PidInit ==
    /\ pid_config \in [p : 0..MaxGain, i : 0..MaxGain, d : 0..MaxGain,
                       minimum : (0 - MaxLimit)..MaxLimit,
                       maximum : (0 - MaxLimit)..MaxLimit]
    /\ pid_config.minimum <= pid_config.maximum
    /\ target = 0
    /\ integral = 0
    /\ in_previous = <<>>
    /\ out_last = <<>>
    /\ input_value = 0
    /\ hardware = <<>>
    /\ loop_written = <<>>
    /\ updates = 0
    /\ stop_set = FALSE
    /\ thread = "unstarted"
    /\ manual = NoCall
    /\ other_call = NoCall
    /\ lock = [owner |-> "none", count |-> 0]
    /\ in_value = <<>>
    /\ update_target = <<>>
    /\ stopper = [pc |-> "none", block |-> FALSE, at |-> "unstarted"]

\* start()
PidStart ==
    /\ thread = "unstarted"
    /\ thread' = "test"
    /\ UNCHANGED <<pid_config, target, integral, in_previous, out_last,
                   input_value, hardware, loop_written, updates, stop_set,
                   manual, lock, in_value, update_target, stopper>>
    /\ UNCHANGED other_call
    /\ UNCHANGED notPid

\* where the loop thread is: not started, inside the locked update step, or
\* started and outside it
LoopAt(t) ==
    IF t = "unstarted" THEN "unstarted"
    ELSE IF t \in {"locked", "read"} THEN "update step"
    ELSE "started"

\* stop(block), line 63: the event is set
PidStop ==
    /\ stopper.pc = "none"
    /\ stop_set' = TRUE
    /\ \E block \in BOOLEAN :
        stopper' = [pc |-> IF block THEN "join" ELSE "returned",
                    block |-> block, at |-> LoopAt(thread)]
    /\ UNCHANGED <<pid_config, target, integral, in_previous, out_last,
                   input_value, hardware, loop_written, updates, thread,
                   manual, lock, in_value, update_target>>
    /\ UNCHANGED other_call
    /\ UNCHANGED notPid

\* stop(block=True), lines 65-66: join() waits for the end of the thread;
\* on a thread that was never started it raises RuntimeError
PidJoin ==
    /\ stopper.pc = "join"
    /\ thread = "unstarted" \/ Joined(thread)
    /\ stopper' = [stopper EXCEPT
                     !.pc = IF thread = "unstarted" THEN "raised" ELSE "returned"]
    /\ UNCHANGED <<pid_config, target, integral, in_previous, out_last,
                   input_value, hardware, loop_written, updates, stop_set,
                   thread, manual, lock, in_value, update_target>>
    /\ UNCHANGED other_call
    /\ UNCHANGED notPid

\* set_target(target) from another thread: the assignment under the lock
PidSetTarget ==
    /\ manual.op = "none"
    /\ CanAcquire(lock, "manual")
    /\ \E v \in Setpoints : v # target /\ target' = v
    /\ UNCHANGED <<pid_config, integral, in_previous, out_last, input_value,
                   hardware, loop_written, updates, stop_set, thread, manual,
                   lock, in_value, update_target, stopper>>
    /\ UNCHANGED other_call
    /\ UNCHANGED notPid

\* set_output(value) from another thread, line 76: _out_last is assigned
\* before the lock is taken
PidManualAssign ==
    /\ manual.op = "none"
    /\ \E v \in Setpoints \ {0} :
        /\ out_last' = <<v>>
        /\ manual' = [op |-> "set_output", value |-> v, locked |-> FALSE]
    /\ UNCHANGED <<pid_config, target, integral, in_previous, input_value,
                   hardware, loop_written, updates, stop_set, thread, lock,
                   in_value, update_target, stopper>>
    /\ UNCHANGED other_call
    /\ UNCHANGED notPid

\* get_input() from another thread is called
PidManualGetInput ==
    /\ manual.op = "none"
    /\ manual' = [op |-> "get_input", value |-> 0, locked |-> FALSE]
    /\ UNCHANGED <<pid_config, target, integral, in_previous, out_last,
                   input_value, hardware, loop_written, updates, stop_set,
                   thread, lock, in_value, update_target, stopper>>
    /\ UNCHANGED other_call
    /\ UNCHANGED notPid

\* lines 69 and 78: "with self._lock" of the manual call
PidManualAcquire ==
    /\ manual.op # "none" /\ ~manual.locked
    /\ CanAcquire(lock, "manual")
    /\ lock' = Acquire(lock, "manual")
    /\ manual' = [manual EXCEPT !.locked = TRUE]
    /\ UNCHANGED <<pid_config, target, integral, in_previous, out_last,
                   input_value, hardware, loop_written, updates, stop_set,
                   thread, in_value, update_target, stopper>>
    /\ UNCHANGED other_call
    /\ UNCHANGED notPid

\* lines 70 and 79: the injected function is called, then the lock released
PidManualCall ==
    /\ manual.locked
    /\ hardware' = IF manual.op = "set_output" THEN <<manual.value>> ELSE hardware
    /\ lock' = Release(lock)
    /\ manual' = NoCall
    /\ UNCHANGED <<pid_config, target, integral, in_previous, out_last,
                   input_value, loop_written, updates, stop_set, thread,
                   in_value, update_target, stopper>>
    /\ UNCHANGED other_call
    /\ UNCHANGED notPid

\* "while not self._stop.is_set()"
\* (variant: "while True")
LoopContinuesMutAlways(stop) == TRUE
LoopContinues(stop) == ~stop

\* _update(), line 94: the loop condition
PidLoopTest ==
    /\ thread = "test"
    /\ thread' = IF LoopContinues(stop_set) THEN "update" ELSE "exited"
    /\ UNCHANGED <<pid_config, target, integral, in_previous, out_last,
                   input_value, hardware, loop_written, updates, stop_set,
                   manual, lock, in_value, update_target, stopper>>
    /\ UNCHANGED other_call
    /\ UNCHANGED notPid

\* _update(), line 96: "with self._lock" of the update step
PidLoopAcquire ==
    /\ thread = "update"
    /\ updates < MaxUpdates
    /\ CanAcquire(lock, "loop")
    /\ lock' = Acquire(lock, "loop")
    /\ update_target' = <<target>>
    /\ thread' = "locked"
    /\ UNCHANGED <<pid_config, target, integral, in_previous, out_last,
                   input_value, hardware, loop_written, updates, stop_set,
                   manual, in_value, stopper>>
    /\ UNCHANGED other_call
    /\ UNCHANGED notPid

\* _update(), line 98: get_input() takes the lock once more, calls the input
\* function, which returns any of Values, and gives that hold back
PidLoopRead ==
    /\ thread = "locked"
    /\ CanAcquire(lock, "loop")
    /\ lock' = Release(Acquire(lock, "loop"))
    /\ \E v \in Values :
        /\ input_value' = v
        /\ in_value' = <<v>>
    /\ thread' = "read"
    /\ UNCHANGED <<pid_config, target, integral, in_previous, out_last,
                   hardware, loop_written, updates, stop_set, manual,
                   update_target, stopper>>
    /\ UNCHANGED other_call
    /\ UNCHANGED notPid

\* _update(), lines 101-116: the rest of the update step, then the sleep.
\* "in_value - self._in_previous" raises TypeError while _in_previous is
\* None; the exception leaves the with block, which releases the lock, and
\* ends the thread.
PidUpdate ==
    /\ thread = "read"
    /\ updates' = updates + 1
    /\ LET in_error == in_value[1] - target
           new_integral == Clamp(integral + pid_config.i * in_error,
                                 pid_config.minimum, pid_config.maximum)
       IN
        /\ integral' = new_integral
        /\ IF in_previous = <<>>
           THEN /\ thread' = "died"
                /\ UNCHANGED <<in_previous, out_last, hardware, loop_written>>
           ELSE LET in_differential == pid_config.d * (in_value[1] - in_previous[1])
                    out_value == Clamp(pid_config.p * in_error + new_integral
                                            + in_differential,
                                       pid_config.minimum, pid_config.maximum)
                IN  /\ in_previous' = in_value
                    /\ out_last' = <<out_value>>
                    /\ hardware' = <<out_value>>
                    /\ loop_written' = Append(loop_written, out_value)
                    /\ thread' = "test"
    /\ lock' = Release(lock)
    /\ in_value' = <<>>
    /\ update_target' = <<>>
    /\ UNCHANGED <<pid_config, target, input_value, stop_set, manual, stopper>>
    /\ UNCHANGED other_call
    /\ UNCHANGED notPid

\* set_output(value) called by a second thread while the first is inside
\* its own call, line 76: _out_last is assigned before the lock is taken
PidOtherAssign ==
    /\ other_call.op = "none"
    /\ manual.op = "set_output"
    /\ \E v \in Setpoints \ {0} :
        /\ out_last' = <<v>>
        /\ other_call' = [op |-> "set_output", value |-> v, locked |-> FALSE]
    /\ UNCHANGED <<pid_config, target, integral, in_previous, input_value,
                   hardware, loop_written, updates, stop_set, thread, manual,
                   lock, in_value, update_target, stopper>>
    /\ UNCHANGED notPid

\* line 78: "with self._lock" of the second thread's call
PidOtherAcquire ==
    /\ other_call.op # "none" /\ ~other_call.locked
    /\ CanAcquire(lock, "other")
    /\ lock' = Acquire(lock, "other")
    /\ other_call' = [other_call EXCEPT !.locked = TRUE]
    /\ UNCHANGED <<pid_config, target, integral, in_previous, out_last,
                   input_value, hardware, loop_written, updates, stop_set,
                   thread, manual, in_value, update_target, stopper>>
    /\ UNCHANGED notPid

\* line 79: the output function is called, then the lock released
PidOtherCall ==
    /\ other_call.locked
    /\ hardware' = <<other_call.value>>
    /\ lock' = Release(lock)
    /\ other_call' = NoCall
    /\ UNCHANGED <<pid_config, target, integral, in_previous, out_last,
                   input_value, loop_written, updates, stop_set, thread,
                   manual, in_value, update_target, stopper>>
    /\ UNCHANGED notPid

NextPid ==
    \/ PidStart
    \/ PidStop
    \/ PidJoin
    \/ PidSetTarget
    \/ PidManualAssign
    \/ PidManualGetInput
    \/ PidManualAcquire
    \/ PidManualCall
    \/ PidLoopTest
    \/ PidLoopAcquire
    \/ PidLoopRead
    \/ PidUpdate

\* ------------------------------------------- connectors and their locks
\* Two threads; thread t owns the RS485AdapterConnector t. Both adapters were
\* constructed on the same port and share one parent RS232Connector.
ThreadNames == <<"thread 1", "thread 2", "thread 3">>

Threads == {ThreadNames[k] : k \in 1..NumThreads}

FreeLock == [owner |-> "none", count |-> 0]

NoConnCall == [pc |-> "idle", via |-> "none", blocking |-> TRUE,
               result |-> FALSE, found_busy |-> FALSE]

ConnInit ==
    /\ parent_lock = FreeLock
    /\ own_lock = [t \in Threads |-> FreeLock]
    /\ conn = [t \in Threads |-> NoConnCall]

\* the positions in which no call is in progress: none made yet, the
\* HardwareException of line 135 raised, the with statement failed, the with
\* body left
CallOver == {"idle", "raised", "no context", "left"}

\* thread t starts "with c.get_lock(blocking=b) as l:", c its adapter
\* connector or the parent RS232Connector itself
ConnCall(t) ==
    /\ conn[t].pc \in CallOver
    /\ \E via \in {"adapter", "parent"}, b \in BOOLEAN :
        conn' = [conn EXCEPT ![t] = [pc |-> "enter", via |-> via, blocking |-> b,
                                     result |-> FALSE, found_busy |-> FALSE]]
    /\ UNCHANGED <<parent_lock, own_lock>>
    /\ UNCHANGED notConn

\* whether this acquire() of the parent lock waits: the adapter calls
\* self._parent.get_lock() without arguments (line 131), the direct caller
\* passes its own keyword arguments on (line 32)
ParentBlocking(c) == IF c.via = "adapter" THEN TRUE ELSE c.blocking

\* RLock.acquire() on the parent lock finds it held by another thread and
\* the call is a blocking one: the thread waits inside acquire()
ConnBlock(t) ==
    /\ conn[t].pc = "enter"
    /\ ParentBlocking(conn[t])
    /\ ~CanAcquire(parent_lock, t)
    /\ conn' = [conn EXCEPT ![t].pc = "blocked", ![t].found_busy = TRUE]
    /\ UNCHANGED <<parent_lock, own_lock>>
    /\ UNCHANGED notConn

\* RS485AdapterConnector.get_lock(), lines 131-133: the parent's get_lock()
\* is entered; its blocking acquire() returns True, so line 133 runs:
\* super().get_lock(**kwargs) builds a context manager that is never entered,
\* the adapter's own lock is not acquired. Line 135 is the other branch.
ConnAdapterEnter(t) ==
    /\ conn[t].pc \in {"enter", "blocked"}
    /\ conn[t].via = "adapter"
    /\ CanAcquire(parent_lock, t)
    /\ LET lock_result == TRUE
       IN IF lock_result
          THEN /\ parent_lock' = Acquire(parent_lock, t)
               /\ conn' = [conn EXCEPT ![t].pc = "with_parent",
                                       ![t].result = lock_result]
          ELSE /\ conn' = [conn EXCEPT ![t].pc = "raised",
                                       ![t].found_busy = TRUE]
               /\ UNCHANGED parent_lock
    /\ UNCHANGED own_lock
    /\ UNCHANGED notConn

\* RS485AdapterConnector.get_lock(): the with block of line 131 ends, which
\* releases the parent lock (lines 36-37), and the method returns None
ConnAdapterReturn(t) ==
    /\ conn[t].pc = "with_parent"
    /\ parent_lock' = IF conn[t].result THEN Release(parent_lock) ELSE parent_lock
    /\ conn' = [conn EXCEPT ![t].pc = "returned"]
    /\ UNCHANGED own_lock
    /\ UNCHANGED notConn

\* the caller's with statement gets None from the adapter's get_lock(): None
\* is no context manager, the statement raises and its body does not run
ConnAdapterWith(t) ==
    /\ conn[t].pc = "returned"
    /\ conn' = [conn EXCEPT ![t].pc = "no context"]
    /\ UNCHANGED <<parent_lock, own_lock>>
    /\ UNCHANGED notConn

\* Connector.get_lock() of the parent called directly, lines 32-34: the
\* acquire() and the yield of its result into the with body
ConnDirectEnter(t) ==
    /\ conn[t].pc \in {"enter", "blocked"}
    /\ conn[t].via = "parent"
    /\ conn[t].blocking => CanAcquire(parent_lock, t)
    /\ LET lock_result == CanAcquire(parent_lock, t)
       IN /\ parent_lock' = IF lock_result THEN Acquire(parent_lock, t)
                            ELSE parent_lock
          /\ conn' = [conn EXCEPT ![t].pc = "inside", ![t].result = lock_result]
    /\ UNCHANGED own_lock
    /\ UNCHANGED notConn

\* Connector.get_lock(), lines 36-37: the with body is done, the lock is
\* released if it was acquired
ConnDirectExit(t) ==
    /\ conn[t].pc = "inside"
    /\ parent_lock' = IF conn[t].result THEN Release(parent_lock) ELSE parent_lock
    /\ conn' = [conn EXCEPT ![t].pc = "left"]
    /\ UNCHANGED own_lock
    /\ UNCHANGED notConn

\* Connector.get_lock(), line 34: the with body raises. contextmanager
\* throws the exception into the generator at its yield; the yield is not
\* inside a try statement, so the generator ends there, lines 36-37 do not
\* run and the exception goes on to the caller.
ConnDirectRaise(t) ==
    /\ conn[t].pc = "inside"
    /\ conn' = [conn EXCEPT ![t].pc = "body raised"]
    /\ UNCHANGED <<parent_lock, own_lock>>
    /\ UNCHANGED notConn

\* --------------------------- Experiment.get_primary_key_field, Capture
\* the elements a declared primary key tuple is made of: field names and an
\* index
KeyElements == {"flow", "temperature", "1"}

\* the tuples of length 0..n over KeyElements
RECURSIVE KeyTuples(_)
KeyTuples(n) ==
    IF n = 0 THEN {<<>>}
    ELSE KeyTuples(n - 1) \cup
         {Append(p, x) : p \in {q \in KeyTuples(n - 1) : Len(q) = n - 1},
                         x \in KeyElements}

\* what _primary_key_field() returns: None or a tuple
Keys ==
    {[isNone |-> TRUE, parts |-> <<>>]} \cup
    {[isNone |-> FALSE, parts |-> p] : p \in KeyTuples(MaxKeyLen)}

KeyExperiments == [label : {"f", "t"}, primary : BOOLEAN, key : Keys]

\* a returned value: None, a string (the sequence of its pieces), or the
\* exception raised
PyNone == [outcome |-> "None", value |-> <<>>]
PyStr(pieces) == [outcome |-> "str", value |-> pieces]
PyRaise(exception) == [outcome |-> exception, value |-> <<>>]

\* Experiment.get_primary_key_field(), for a declared key that is None or a
\* tuple; the string is label + '_' + primary_key
GetPrimaryKeyField(e) ==
    LET parts == e.key.parts
        final(primary_key) ==
            IF e.primary THEN PyStr(<<e.label, "_">> \o primary_key) ELSE PyNone
    IN  IF e.key.isNone \/ parts = <<>> THEN PyNone
        ELSE IF Len(parts) = 1 THEN final(<<parts[1]>>)
        ELSE IF Len(parts) = 2 THEN final(<<parts[1], "[", parts[2], "]">>)
        ELSE PyRaise("ExperimentConfigurationException")

\* the experiments of an active list: the experiment classes declare the
\* key None (TimeExperiment) or a 1-tuple (FlowExperiment: 'flow',)
StackExperiments ==
    {e \in KeyExperiments :
        e.label = "f" /\ (e.key.isNone \/ e.key.parts = <<"flow">>)}

RECURSIVE Stacks(_)
Stacks(n) ==
    IF n = 0 THEN {<<>>}
    ELSE Stacks(n - 1) \cup
         {Append(s, e) : s \in {q \in Stacks(n - 1) : Len(q) = n - 1},
                         e \in StackExperiments}

\* Capture._has_experiment_state(experiment_stack)
HasExperimentState(stack) ==
    \E k \in 1..Len(stack) : GetPrimaryKeyField(stack[k]).outcome = "str"

\* Capture._get_experiment_state_values(experiment_stack): raises when no
\* experiment has a key field
StateValuesRaise(stack) == ~HasExperimentState(stack)

\* Capture.get_data(), line 26: the value assigned to _raw after the warning
\* (variant: _raw is left as it is)
DegradedRawMutKeep(raw) == raw
DegradedRaw(raw) == FALSE

\* Capture.get_data() of a RandomCapture: whether it warns, _raw afterwards,
\* and the kind of data _get_data() returns
GetData(raw, stack) ==
    LET warned == raw /\ ~HasExperimentState(stack)
        raw_after == IF warned THEN DegradedRaw(raw) ELSE raw
    IN  [has_key |-> HasExperimentState(stack),
         warned |-> warned,
         raw_after |-> raw_after,
         kind |-> IF raw_after
                  THEN IF StateValuesRaise(stack) THEN "CaptureException"
                       ELSE "raw"
                  ELSE "aggregate"]

CapInit ==
    /\ cap_config \in [raw : BOOLEAN]
    /\ cap_raw = cap_config.raw
    /\ cap_warnings = 0
    /\ cap_log = <<>>
    /\ key_call = <<>>

\* one leaf event: main() calls get_data(active_experiments)
CapGetData ==
    /\ Len(cap_log) < MaxEvents
    /\ \E stack \in Stacks(MaxStack) :
        LET d == GetData(cap_raw, stack)
        IN  /\ cap_raw' = d.raw_after
            /\ cap_warnings' = cap_warnings + (IF d.warned THEN 1 ELSE 0)
            /\ cap_log' = Append(cap_log, [has_key |-> d.has_key, kind |-> d.kind])
    /\ UNCHANGED <<cap_config, key_call>>
    /\ UNCHANGED notCap

\* get_primary_key_field() is called on an experiment
CapKeyCall ==
    /\ key_call = <<>>
    /\ \E e \in KeyExperiments :
        key_call' = <<[e |-> e, result |-> GetPrimaryKeyField(e)]>>
    /\ UNCHANGED <<cap_config, cap_raw, cap_warnings, cap_log>>
    /\ UNCHANGED notCap

\* ------------------- the post-process and export pipeline of a leaf event
\* a threshold's optional bound: <<>> for None, <<b>> for the number b
Bounds == {<<>>} \cup {<<b>> : b \in (0 - MaxBound)..MaxBound}

\* the entries of ThresholdPostProcessor._limit, all on the field 'x'
Limits == [min : Bounds, max : Bounds, exception : BOOLEAN,
           level : {"WARNING", "ERROR"}]

\* post-processors: a ThresholdPostProcessor with one limit, and two that
\* only return: None, or another dict than the one they were given
PostProcessors ==
    [kind : {"threshold"}, limit : Limits] \cup
    {[kind |-> k, limit |-> <<>>] : k \in {"none", "replace"}}

\* the record of the event: whether it has the field 'x', its value, and how
\* many times a post-processor replaced the dict
Records ==
    [has_field : BOOLEAN, value : (0 - MaxBound - 1)..(MaxBound + 1), rev : {0}]

\* "limit['min'] and field_data < limit['min']": None and 0 are false, so the
\* comparison is made for a bound other than 0 only
UnderMin(limit, field_data) ==
    limit.min # <<>> /\ limit.min[1] # 0 /\ field_data < limit.min[1]

\* "limit['max'] and field_data > limit['max']"
OverMax(limit, field_data) ==
    limit.max # <<>> /\ limit.max[1] # 0 /\ field_data > limit.max[1]

\* ThresholdPostProcessor.process(data) for one limit: the log records, and
\* the dict returned or the exception raised
ThresholdProcess(limit, data) ==
    LET limit_min == data.has_field /\ UnderMin(limit, data.value)
        limit_max == data.has_field /\ OverMax(limit, data.value)
    IN  [logged |-> (IF limit_min THEN <<[level |-> limit.level, what |-> "under"]>>
                     ELSE <<>>) \o
                    (IF limit_max THEN <<[level |-> limit.level, what |-> "over"]>>
                     ELSE <<>>),
         outcome |-> IF (limit_min \/ limit_max) /\ limit.exception
                     THEN "PostProcessorException" ELSE "data",
         data |-> data]

\* p.process(data)
Process(p, data) ==
    IF p.kind = "threshold" THEN ThresholdProcess(p.limit, data)
    ELSE [logged |-> <<>>,
          outcome |-> IF p.kind = "none" THEN "None" ELSE "data",
          data |-> [data EXCEPT !.rev = @ + 1]]

\* the exporters that write a file
ExporterKinds == {"CSVExporter", "MatfileExporter", "SummaryTextExporter"}

\* export(identifier, export_data) on a target file with these lines: the
\* lines it has afterwards. savemat() opens the file for writing, the text
\* exporters open it with mode 'a'; the delimited exporter writes its header
\* before its first line
Export(kind, lines) ==
    IF kind = "MatfileExporter" THEN <<"record">>
    ELSE IF kind = "SummaryTextExporter" THEN Append(lines, "record")
    ELSE (IF lines = <<>> THEN <<"header">> ELSE lines) \o <<"record">>

\* where main() is after p.process(data) ended with this outcome
\* (variant: the loop goes on whatever the outcome)
AfterProcessMutSwallow(outcome) == "post"
AfterProcess(outcome) ==
    IF outcome = "data" THEN "post"
    ELSE IF outcome = "None" THEN "AttributeError"
    ELSE outcome

\* one leaf event: the modules loaded, the record captured, and the result
\* directory as earlier leaf events left it. Like the class of each
\* post-processor, the class of the export modules is drawn where it is
\* first called
PipeInit ==
    /\ pipe_config \in [posts : 0..MaxPosts, exporters : 0..MaxExporters,
                         kind : {"Exporter"}]
    /\ pipe_files \in {<<>>, <<"earlier">>}
    \* with no export module loaded no earlier event has written a line
    /\ pipe_config.exporters = 0 => pipe_files = <<>>
    /\ pipe_data \in Records
    /\ pipe_index = 0
    /\ pipe_last = <<>>
    /\ pipe_warnings = 0
    /\ pipe_exports = <<>>
    /\ pipe_pc = "post"

\* main(), lines 281-290: one turn of the loop over post_process_modules.
\* For a result of None line 290 evaluates p.__name__ on the post-processor
\* object, which has no such attribute: AttributeError is raised before the
\* warning is logged.
PipePost ==
    /\ pipe_pc = "post"
    /\ pipe_index < pipe_config.posts
    /\ \E p \in PostProcessors :
        LET d == Process(p, pipe_data)
        IN  /\ pipe_last' = <<[p |-> p, before |-> pipe_data, logged |-> d.logged,
                               outcome |-> d.outcome]>>
            /\ pipe_pc' = AfterProcess(d.outcome)
            /\ IF d.outcome = "data"
               THEN /\ pipe_data' = d.data
                    /\ pipe_index' = pipe_index + 1
               ELSE UNCHANGED <<pipe_data, pipe_index>>
    /\ UNCHANGED <<pipe_config, pipe_warnings, pipe_exports, pipe_files>>
    /\ UNCHANGED notPipe

\* main(), lines 280-293: the loop over post_process_modules is over
PipePostsDone ==
    /\ pipe_pc = "post"
    /\ pipe_index = pipe_config.posts
    /\ IF pipe_config.exporters = 0
       THEN pipe_pc' = "done" /\ UNCHANGED pipe_config
       ELSE /\ pipe_pc' = "export"
            /\ \E k \in ExporterKinds :
                    pipe_config' = [pipe_config EXCEPT !.kind = k]
    /\ UNCHANGED <<pipe_data, pipe_index, pipe_last, pipe_warnings,
                   pipe_exports, pipe_files>>
    /\ UNCHANGED notPipe

\* main(), lines 293-294: e.export(capture_id_short, data); no exporter
\* looks whether its target file exists
PipeExport ==
    /\ pipe_pc = "export"
    /\ pipe_exports' = Append(pipe_exports, pipe_data)
    /\ pipe_files' = Export(pipe_config.kind, pipe_files)
    /\ pipe_pc' = IF Len(pipe_exports') = pipe_config.exporters THEN "done"
                  ELSE "export"
    /\ UNCHANGED <<pipe_config, pipe_data, pipe_index, pipe_last, pipe_warnings>>
    /\ UNCHANGED notPipe

\* ------------------------------------ TimeExperiment._interruptable_sleep
\* what the operator may type at the prompt; "x" is any other text
Commands == {"n", "next", "s", "stop", "r", "resume", "x"}

\* lines 348-349: sleep_time = wake_time - start_time
SleepTime(wake_time, start_time) == wake_time - start_time

\* lines 376-377: the sleep time after a resume, computed again from the
\* same wake_time
\* (variant: the sleep time is left as it was)
ResumeSleepTimeMutKeep(wake_time, start_time, previous) == previous
ResumeSleepTime(wake_time, start_time, previous) ==
    SleepTime(wake_time, start_time)

SleepInit ==
    /\ sl_now = 0
    /\ sl_wake = 0
    /\ sl_sleep_time = 0
    /\ sl_until = 0
    /\ sl_interrupts = 0
    /\ sl_last = [cmd |-> "none", at |-> 0]
    /\ sl_pc = "ready"

\* time passes; a time.sleep() call in progress ends at sl_until
SleepTick ==
    /\ sl_pc \in {"ready", "sleeping", "prompt"}
    /\ sl_now < MaxTime
    /\ sl_pc = "sleeping" => sl_now < sl_until
    /\ sl_now' = sl_now + 1
    /\ UNCHANGED <<sl_wake, sl_sleep_time, sl_until, sl_interrupts, sl_last, sl_pc>>
    /\ UNCHANGED notSleep

\* _interruptable_sleep(wake_time) is called, lines 347-356 and 390-391:
\* with no time to sleep it warns and returns, else time.sleep(sleep_time)
\* begins
SleepStart ==
    /\ sl_pc = "ready"
    /\ \E wake_time \in 0..(sl_now + MaxDelay) :
        LET sleep_time == SleepTime(wake_time, sl_now)
        IN  /\ sl_wake' = wake_time
            /\ sl_sleep_time' = sleep_time
            /\ IF sleep_time > 0
               THEN sl_until' = sl_now + sleep_time /\ sl_pc' = "sleeping"
               ELSE sl_until' = sl_until /\ sl_pc' = "returned"
    /\ UNCHANGED <<sl_now, sl_interrupts, sl_last>>
    /\ UNCHANGED notSleep

\* lines 355-356: time.sleep() ran to its end, the loop is left
SleepWake ==
    /\ sl_pc = "sleeping"
    /\ sl_now >= sl_until
    /\ sl_pc' = "returned"
    /\ UNCHANGED <<sl_now, sl_wake, sl_sleep_time, sl_until, sl_interrupts, sl_last>>
    /\ UNCHANGED notSleep

\* KeyboardInterrupt: during time.sleep() it is caught at line 357 and the
\* prompt is shown; during input() nothing catches it
SleepInterrupt ==
    /\ sl_pc \in {"sleeping", "prompt"}
    /\ sl_interrupts < MaxInterrupts
    /\ sl_interrupts' = sl_interrupts + 1
    /\ sl_last' = [cmd |-> "interrupt", at |-> sl_now]
    /\ sl_pc' = IF sl_pc = "sleeping" THEN "prompt" ELSE "KeyboardInterrupt"
    /\ UNCHANGED <<sl_now, sl_wake, sl_sleep_time, sl_until>>
    /\ UNCHANGED notSleep

\* lines 360-388: the operator answers the prompt
SleepCommand ==
    /\ sl_pc = "prompt"
    /\ \E cmd \in Commands :
        /\ sl_last' = [cmd |-> cmd, at |-> sl_now]
        /\ IF cmd \in {"n", "next"}
           THEN /\ sl_pc' = "returned"
                /\ UNCHANGED <<sl_sleep_time, sl_until>>
           ELSE IF cmd \in {"s", "stop"}
           THEN /\ sl_pc' = "KeyboardInterrupt"
                /\ UNCHANGED <<sl_sleep_time, sl_until>>
           ELSE IF cmd \in {"r", "resume"}
           THEN LET sleep_time == ResumeSleepTime(sl_wake, sl_now, sl_sleep_time)
                IN  /\ sl_sleep_time' = sleep_time
                    /\ IF sleep_time > 0
                       THEN sl_until' = sl_now + sleep_time /\ sl_pc' = "sleeping"
                       ELSE sl_until' = sl_until /\ sl_pc' = "returned"
           ELSE /\ sl_pc' = "prompt"
                /\ UNCHANGED <<sl_sleep_time, sl_until>>
    /\ UNCHANGED <<sl_now, sl_wake, sl_interrupts>>
    /\ UNCHANGED notSleep

\* --------------------- _generate_module_args, _generate_experiment_tree
\* The configuration dictionaries of one class: the stepped parameter and
\* the 'primary' flag, each absent (<<>>) or present (<<value>>). 'class',
\* 'label' and 'child' are popped from the dictionary before the instance
\* uses it.
ParameterLists == {[i \in 1..n |-> i] : n \in 1..MaxLen}

ConfigDicts == [delay   : {<<>>} \cup {<<l>> : l \in ParameterLists},
                primary : {<<>>, <<FALSE>>, <<TRUE>>}]

EmptyDict == [delay |-> <<>>, primary |-> <<>>]

\* base.update(other): the dictionary base after the call
DictUpdate(base, other) ==
    [delay   |-> IF other.delay # <<>> THEN other.delay ELSE base.delay,
     primary |-> IF other.primary # <<>> THEN other.primary ELSE base.primary]

\* the global per-class options as loaded: no entry for the class, or one
ConfigInit ==
    /\ global_module_config \in [has_entry : BOOLEAN, entry : ConfigDicts]
    /\ ~global_module_config.has_entry => global_module_config.entry = EmptyDict
    /\ loaded_defaults = global_module_config.entry
    /\ instances = <<>>

\* _generate_experiment_tree(module_config, global_module_config) for a node
\* of the class: "config" is the entry itself when there is one, a new
\* dictionary otherwise; config.update(module_config); the experiment is
\* constructed on config and keeps it as self._config
GenerateExperimentTree ==
    /\ Len(instances) < MaxInstances
    /\ \E module_config \in ConfigDicts :
        /\ module_config.delay # <<>>
        /\ LET g == global_module_config
               config == DictUpdate(IF g.has_entry THEN g.entry ELSE EmptyDict,
                                    module_config)
           IN /\ global_module_config' =
                    IF g.has_entry THEN [g EXCEPT !.entry = config] ELSE g
              /\ instances' = Append(instances,
                    [kind |-> "experiment", declared |-> module_config,
                     shared |-> g.has_entry,
                     config |-> IF g.has_entry THEN EmptyDict ELSE config])
    /\ UNCHANGED loaded_defaults
    /\ UNCHANGED notConf

\* _generate_module_args(global_config, parent, **kwargs) for a capture,
\* post-processing or export module of the class: the entry is updated in
\* place, the constructor gets its items as keyword arguments
GenerateModuleArgs ==
    /\ Len(instances) < MaxInstances
    /\ \E kwargs \in ConfigDicts :
        LET g == global_module_config
            instance_config == IF g.has_entry THEN DictUpdate(g.entry, kwargs)
                               ELSE kwargs
        IN /\ global_module_config' =
                 IF g.has_entry THEN [g EXCEPT !.entry = instance_config] ELSE g
           /\ instances' = Append(instances,
                 [kind |-> "module", declared |-> kwargs, shared |-> FALSE,
                  config |-> instance_config])
    /\ UNCHANGED loaded_defaults
    /\ UNCHANGED notConf

\* the dictionary instance i works with now
InstanceConfig(i) ==
    IF instances[i].shared THEN global_module_config.entry
    ELSE instances[i].config

NextConfig ==
    \/ GenerateExperimentTree
    \/ GenerateModuleArgs

\* ------------------------------------------------------- specifications
OrchIdle ==
    /\ config_labels = <<>> /\ parent = <<>> /\ step_maximum = <<>> /\ experiment_nodes = <<>>
    /\ active_experiments = <<>> /\ running_experiments = <<>>
    /\ current_step = <<>> /\ next_step = <<>> /\ step_calls = <<>>
    /\ reset_calls = <<>> /\ stop_calls = <<>> /\ captures = <<>>
    /\ fault = "none" /\ pc = "idle"

ExpIdle ==
    /\ exp = <<>> /\ fresh = <<>> /\ saved = <<>> /\ resumed = FALSE
    /\ now = 0 /\ exp_log = <<>> /\ fresh_log = <<>> /\ last = <<>>
    /\ state_call = <<>>

RetryIdle ==
    /\ retry_config = <<>> /\ plan = <<>> /\ retry = 0 /\ attempt = 0
    /\ calls = 0 /\ resets = 0 /\ sleeps = 0 /\ returns = 0
    /\ raised = "none" /\ rpc = "idle" /\ query = <<>>

PidIdle ==
    /\ pid_config = <<>> /\ target = 0 /\ integral = 0 /\ in_previous = <<>>
    /\ out_last = <<>> /\ input_value = 0 /\ hardware = <<>>
    /\ loop_written = <<>> /\ updates = 0 /\ stop_set = FALSE
    /\ thread = "idle" /\ manual = <<>> /\ other_call = <<>>
    /\ lock = <<>> /\ in_value = <<>>
    /\ update_target = <<>> /\ stopper = <<>>

ConnIdle ==
    /\ parent_lock = <<>> /\ own_lock = <<>> /\ conn = <<>>

CapIdle ==
    /\ cap_config = <<>> /\ cap_raw = FALSE /\ cap_warnings = 0
    /\ cap_log = <<>> /\ key_call = <<>>

PipeIdle ==
    /\ pipe_config = <<>> /\ pipe_data = <<>> /\ pipe_index = 0
    /\ pipe_last = <<>> /\ pipe_warnings = 0 /\ pipe_exports = <<>>
    /\ pipe_files = <<>> /\ pipe_pc = "idle"

ConfIdle ==
    /\ global_module_config = <<>> /\ loaded_defaults = <<>> /\ instances = <<>>

SleepIdle ==
    /\ sl_now = 0 /\ sl_wake = 0 /\ sl_sleep_time = 0 /\ sl_until = 0
    /\ sl_interrupts = 0 /\ sl_last = <<>> /\ sl_pc = "idle"

\* the stepping loop of main()
Init == OrchInit /\ ExpIdle /\ RetryIdle /\ PidIdle /\ ConnIdle /\ CapIdle /\ PipeIdle
    /\ SleepIdle /\ ConfIdle

Spec == Init /\ [][Next]_vars

\* main() runs on the main thread and is not suspended for ever
SpecFair == Spec /\ WF_vars(Next)

\* one experiment object and its resume state
InitExp == ExpInit /\ OrchIdle /\ RetryIdle /\ PidIdle /\ ConnIdle /\ CapIdle /\ PipeIdle
    /\ SleepIdle /\ ConfIdle

SpecExp == InitExp /\ [][NextExp]_vars

\* one call of a retry-wrapped function
InitRetry == RetryInit /\ OrchIdle /\ ExpIdle /\ PidIdle /\ ConnIdle /\ CapIdle /\ PipeIdle
    /\ SleepIdle /\ ConfIdle

SpecRetry == InitRetry /\ [][NextRetry]_vars

\* one query() call on an RS232Connector
InitQuery == QueryInit /\ OrchIdle /\ ExpIdle /\ PidIdle /\ ConnIdle /\ CapIdle /\ PipeIdle
    /\ SleepIdle /\ ConfIdle

SpecQuery == InitQuery /\ [][NextQuery]_vars

\* one regulator with its loop thread and a thread making manual calls
InitPid == PidInit /\ OrchIdle /\ ExpIdle /\ RetryIdle /\ ConnIdle /\ CapIdle /\ PipeIdle
    /\ SleepIdle /\ ConfIdle

SpecPid == InitPid /\ [][NextPid]_vars

\* the gains and limits play no part in where the thread goes: one regulator
InitPidFair ==
    /\ InitPid /\ pid_config.p = 1 /\ pid_config.i = 1 /\ pid_config.d = 1
    /\ pid_config.minimum = 0 - MaxLimit /\ pid_config.maximum = MaxLimit

\* the loop thread is scheduled, a thread waiting for the lock gets it once
\* it is released often enough, and the injected functions return
SpecPidFair ==
    /\ InitPidFair /\ [][NextPid]_vars
    /\ WF_vars(PidLoopTest) /\ SF_vars(PidLoopAcquire)
    /\ WF_vars(PidLoopRead) /\ WF_vars(PidUpdate)
    /\ WF_vars(PidManualCall)

\* the loop thread and two threads calling set_output()
NextPidCallers ==
    \/ PidStart
    \/ PidManualAssign
    \/ PidManualAcquire
    \/ PidManualCall
    \/ PidOtherAssign
    \/ PidOtherAcquire
    \/ PidOtherCall
    \/ PidLoopTest
    \/ PidLoopAcquire
    \/ PidLoopRead
    \/ PidUpdate

SpecPidCallers == InitPidFair /\ [][NextPidCallers]_vars

\* instances of one class made from the configuration
InitConfig == ConfigInit /\ OrchIdle /\ ExpIdle /\ RetryIdle /\ PidIdle /\ ConnIdle /\ CapIdle
    /\ PipeIdle /\ SleepIdle

SpecConfig == InitConfig /\ [][NextConfig]_vars

\* threads taking connector locks
InitConn == ConnInit /\ OrchIdle /\ ExpIdle /\ RetryIdle /\ PidIdle /\ CapIdle /\ PipeIdle
    /\ SleepIdle /\ ConfIdle

NextConn ==
    \/ \E t \in Threads : ConnCall(t)
    \/ \E t \in Threads : ConnBlock(t)
    \/ \E t \in Threads : ConnAdapterEnter(t)
    \/ \E t \in Threads : ConnAdapterReturn(t)
    \/ \E t \in Threads : ConnAdapterWith(t)
    \/ \E t \in Threads : ConnDirectEnter(t)
    \/ \E t \in Threads : ConnDirectExit(t)
    \/ \E t \in Threads : ConnDirectRaise(t)

SpecConn == InitConn /\ [][NextConn]_vars

\* one capture module, and get_primary_key_field() calls
InitCap == CapInit /\ OrchIdle /\ ExpIdle /\ RetryIdle /\ PidIdle /\ ConnIdle /\ PipeIdle
    /\ SleepIdle /\ ConfIdle

NextCap ==
    \/ CapGetData
    \/ CapKeyCall

SpecCap == InitCap /\ [][NextCap]_vars

\* the post-processors and exporters of one leaf event
InitPipe ==
    PipeInit /\ OrchIdle /\ ExpIdle /\ RetryIdle /\ PidIdle /\ ConnIdle /\ CapIdle
    /\ SleepIdle /\ ConfIdle

NextPipe ==
    \/ PipePost
    \/ PipePostsDone
    \/ PipeExport

SpecPipe == InitPipe /\ [][NextPipe]_vars

\* one interruptible wait of a TimeExperiment
InitSleep ==
    SleepInit /\ OrchIdle /\ ExpIdle /\ RetryIdle /\ PidIdle /\ ConnIdle /\ CapIdle
    /\ PipeIdle /\ ConfIdle

NextSleep ==
    \/ SleepTick
    \/ SleepStart
    \/ SleepWake
    \/ SleepInterrupt
    \/ SleepCommand

SpecSleep == InitSleep /\ [][NextSleep]_vars

\* ================================================================ claims
\* ---------------------------------------------------------------- C1
LeafEvents(n) == SelectSeq(captures, LAMBDA e : e.leaf = n)

\* C1: in a run of the loop that finishes normally over a forest in which
\* every experiment has step_maximum >= 1, each leaf has emitted exactly the
\* product of the step_maximum values on its root-to-leaf path as its number
\* of leaf events; no run emits more than that for a leaf.
C1_LeafEventCount ==
    (\A n \in Nodes : step_maximum[n] >= 1) =>
        \A n \in Nodes : IsLeaf(n) =>
            /\ Len(LeafEvents(n)) <= PathProduct(n)
            /\ pc = "finished" => Len(LeafEvents(n)) = PathProduct(n)

\* a chain of three experiments of two steps each: eight leaf events
C1_Witness ==
    /\ pc = "finished"
    /\ \E n \in Nodes :
        /\ IsLeaf(n) /\ Len(PathTo(n)) = 3
        /\ \A m \in Range(PathTo(n)) : step_maximum[m] = 2
        /\ Len(LeafEvents(n)) = 8

\* ---------------------------------------------------------------- C2
LeafTrace(n) == [i \in 1..Len(LeafEvents(n)) |-> LeafEvents(n)[i].steps]

LexLess(a, b) ==
    /\ Len(a) = Len(b)
    /\ \E k \in 1..Len(a) : /\ \A j \in 1..(k - 1) : a[j] = b[j]
                            /\ a[k] < b[k]

RestartsInner(a, b) ==
    \A k \in 1..Len(a) : a[k] # b[k] =>
        \A j \in (k + 1)..Len(b) : b[j] = 0

\* C2: along one root-to-leaf path the step-index tuples (root first) of
\* the successive leaf events start at all-zero, are strictly increasing in
\* lexicographic order, and every experiment below one that advanced is back
\* at index 0.
C2_NestedLoopOrder ==
    \A n \in Nodes :
        LET t == LeafTrace(n) IN
        /\ Len(t) >= 1 => t[1] = [i \in 1..Len(PathTo(n)) |-> 0]
        /\ \A i \in 1..(Len(t) - 1) :
                LexLess(t[i], t[i + 1]) /\ RestartsInner(t[i], t[i + 1])

C2_Witness ==
    /\ pc = "finished"
    /\ \E n \in Nodes :
        LeafTrace(n) = << <<0, 0>>, <<0, 1>>, <<1, 0>>, <<1, 1>> >>

\* ---------------------------------------------------------------- C3
\* C3: at every leaf event the active-experiments list is exactly the path
\* from a root to the leaf being captured, root first.
C3_ActiveIsPath ==
    \A i \in 1..Len(captures) :
        captures[i].active = PathTo(captures[i].leaf)

\* a leaf captured after its sibling was exhausted, and the sibling captured
\* again after their parent advanced
C3_Witness ==
    \E i, j, k \in 1..Len(captures) :
        /\ i < j /\ j < k
        /\ parent[captures[i].leaf] # 0
        /\ parent[captures[j].leaf] = parent[captures[i].leaf]
        /\ captures[j].leaf # captures[i].leaf
        /\ captures[k].leaf = captures[i].leaf
        /\ Len(captures[k].active) = 2

\* ---------------------------------------------------------------- C4
\* C4: when an error raised in the stepping loop has propagated out of
\* main, stop() has been called on every experiment that was stepped at
\* least once, the one whose step() raised included.
C4_StopOnError ==
    pc = "raised" =>
        \A n \in Nodes : step_calls[n] > 0 => n \in Range(stop_calls)

\* step() raised at depth 2 on the first step of that experiment, after a
\* sibling was exhausted
C4_Witness ==
    /\ pc = "raised" /\ fault = "step"
    /\ experiment_nodes # <<>>
    /\ LET n == Head(experiment_nodes) IN
        /\ parent[n] # 0 /\ step_calls[n] = 1
        /\ n \in Range(stop_calls)
        /\ \E m \in Nodes : m # n /\ parent[m] = parent[n] /\ step_calls[m] > 0

\* ---------------------------------------------------------------- C5
\* C5: a step() called while has_next() is false ends with an experiment
\* error and leaves the counters where they were, not past step_maximum.
C5_StepFailsWhenExhausted ==
    (pc = "idle" /\ last.called /\ ~last.had_next) =>
        /\ last.outcome = "ExperimentError"
        /\ exp.next_step <= StepMaximum(exp)

\* ---------------------------------------------------------------- C6
\* C6: for Flow, Humidity and RegulatedTemperature, a new instance given the
\* resume state taken after any number of steps has the same counters and
\* the same has_next() as the original, and every later step() returns the
\* same outcome, step index and has_next() on both.
C6_CounterResumeRoundTrip ==
    (pc = "idle" /\ resumed /\ exp.variant \in CounterVariants) =>
        /\ fresh.current_step = exp.current_step
        /\ fresh.next_step = exp.next_step
        /\ HasNext(fresh.next_step, StepMaximum(fresh))
             = HasNext(exp.next_step, StepMaximum(exp))
        /\ fresh_log = exp_log

\* resumed after one step of a two-step list, then stepped to the end
C6_Witness ==
    /\ pc = "idle" /\ resumed /\ exp.variant = "FlowExperiment"
    /\ saved = <<PyInt(0), PyInt(1)>>
    /\ Len(fresh_log) = 1
    /\ fresh_log[1].outcome = "ok" /\ fresh_log[1].index = 1
    /\ ~fresh_log[1].has_next

\* ---------------------------------------------------------------- C7
\* C7: for TimeExperiment and SynchronisedTimeExperiment,
\* get_resume_state() right after set_resume_state(s) returns s, and every
\* later step() of the resumed instance ends as on the original: same
\* outcome, same wake time, re-anchored on the same steps.
C7_TimeResumeRoundTrip ==
    (pc = "idle" /\ resumed /\ exp.variant \in TimeVariants) =>
        /\ Len(fresh_log) = 0 => GetResumeState(fresh) = saved
        /\ fresh_log = exp_log

\* ---------------------------------------------------------------- C8
RetryDone == rpc \in {"returned", "raised", "fell_off"}

\* f raises a transient exception on its first k invocations
FailsFirst(k) == \A i \in 1..k : plan[i] = "transient"

\* C8: with an attempt limit N >= 1 and k < N, when f raises a transient
\* exception on its first k invocations and then succeeds, f is never
\* invoked more than k+1 times, and the finished call has invoked f k+1
\* times, returned the value once and called a configured reset hook k times.
C8_RetrySucceedsAfterK ==
    \A k \in 0..MaxRetry :
        (rpc \notin {"idle", "init"} /\ retry >= 1 /\ k < retry
            /\ FailsFirst(k) /\ plan[k + 1] = "ok") =>
            /\ calls <= k + 1
            /\ RetryDone =>
                /\ rpc = "returned" /\ returns = 1 /\ calls = k + 1
                /\ retry_config.has_reset => resets = k
                /\ raised = "none"

C8_Witness ==
    /\ rpc = "returned" /\ retry = 3 /\ retry_config.has_reset
    /\ plan[1] = "transient" /\ plan[2] = "transient" /\ plan[3] = "ok"
    /\ calls = 3 /\ resets = 2 /\ returns = 1

\* ---------------------------------------------------------------- C9
\* C9: with an attempt limit N >= 1, when f raises a transient exception on
\* every attempt it is invoked exactly N times and the call ends by raising
\* the transient exception; when an invocation raises an exception of no
\* configured type, the call ends by raising it with no further invocation
\* and no reset-hook call after it.
C9_RetryErrorOutcomes ==
    (RetryDone /\ retry >= 1) =>
        /\ FailsFirst(retry) =>
            /\ rpc = "raised" /\ raised = "transient"
            /\ calls = retry /\ returns = 0
        /\ \A k \in 0..(retry - 1) :
            (FailsFirst(k) /\ plan[k + 1] = "other") =>
                /\ rpc = "raised" /\ raised = "other"
                /\ calls = k + 1 /\ returns = 0
                /\ retry_config.has_reset => resets = k

\* the limit comes from the instance attribute, the second attempt raises
\* an exception of another type
C9_Witness ==
    /\ rpc = "raised" /\ raised = "other"
    /\ retry_config.has_retry_attribute /\ retry_config.attribute_value = 3
    /\ retry_config.has_reset
    /\ plan[1] = "transient" /\ plan[2] = "other"
    /\ calls = 2 /\ resets = 1

\* --------------------------------------------------------------- C10
InLimits(v) == pid_config.minimum <= v /\ v <= pid_config.maximum

\* C10: with output limits minimum <= maximum, every value the update step
\* of the loop has given to the output function lies in [minimum, maximum],
\* and so does the integral accumulator after every update step, for all
\* gains >= 0, targets and inputs.
C10_ClampedOutput ==
    thread # "idle" =>
        /\ \A k \in 1..Len(loop_written) : InLimits(loop_written[k])
        /\ updates >= 1 => InLimits(integral)

\* an update step whose integral term overshoots the maximum
C10_Witness ==
    /\ thread # "idle" /\ updates >= 1
    /\ pid_config.i * (input_value - target) > pid_config.maximum
    /\ integral = pid_config.maximum

\* --------------------------------------------------------------- C11
\* C11: after start(), every period of the control loop, the first included,
\* completes its update step: each update step begun has written one output
\* and stored the input as previous input, and the loop thread ends only
\* after stop was signalled.
C11_UpdateStepCompletes ==
    thread # "idle" =>
        /\ thread # "died"
        /\ Len(loop_written) = updates
        /\ updates >= 1 => in_previous # <<>>
        /\ thread = "exited" => stop_set

\* --------------------------------------------------------------- C12
LoopInside == thread \in {"locked", "read"}

\* C12: the input and the output function are only called by a thread that
\* holds the regulator's lock: while the update step of the loop is between
\* taking the lock and its end the loop owns the lock and no manual call is
\* inside its own locked section, a manual call inside its locked section
\* owns the lock, and the target does not change during an update step.
C12_CallsUnderLock ==
    thread # "idle" =>
        /\ LoopInside => lock.owner = "loop" /\ ~manual.locked
        /\ manual.locked => lock.owner = "manual"
        /\ LoopInside => update_target = <<target>>

\* the update step has read its input while a manual set_output() waits for
\* the lock
C12_Witness ==
    /\ thread = "read"
    /\ manual.op = "set_output" /\ ~manual.locked
    /\ lock.owner = "loop"

\* --------------------------------------------------------------- C13
StopReturned ==
    /\ thread # "idle"
    /\ stopper.pc = "returned" /\ stopper.block /\ stopper.at # "unstarted"

\* C13: once stop(block=True) has returned on a started regulator, no step
\* changes the loop thread's position, the update count, the input it read,
\* the integral, the previous input or the outputs it wrote.
C13_NoUpdateAfterStop ==
    [][StopReturned =>
         UNCHANGED <<thread, updates, in_value, integral, in_previous,
                     loop_written>>]_vars

\* stop(block=True) was called while an update step held the lock and has
\* returned
C13_Witness ==
    /\ StopReturned
    /\ stopper.at = "update step"
    /\ thread = "died" /\ updates = 1

\* --------------------------------------------------------------- C14
AtCriticalSection(t) ==
    conn[t].via = "adapter" /\ conn[t].pc = "returned"

\* C14: a thread to which the get_lock() of its RS485 adapter connector has
\* returned, and which is thus at the section the lock guards, holds the lock
\* of the shared parent and the connector's own lock, and no two threads are
\* at that point at once.
C14_AdaptersSerialize ==
    conn # <<>> =>
        /\ \A t \in Threads :
               AtCriticalSection(t) =>
                   parent_lock.owner = t /\ own_lock[t].owner = t
        /\ \A t, u \in Threads :
               AtCriticalSection(t) /\ AtCriticalSection(u) => t = u

\* --------------------------------------------------------------- C15
\* C15: a get_lock() call on an adapter connector that found the parent's
\* lock held by another thread has raised the resource lock error; it is not
\* waiting, has not returned and has not taken the connector's own lock.
C15_ParentBusyRaises ==
    conn # <<>> =>
        \A t \in Threads :
            (conn[t].via = "adapter" /\ conn[t].found_busy) =>
                conn[t].pc = "raised" /\ own_lock[t].owner # t

\* --------------------------------------------------------------- C16
NoKeyEvents == {k \in 1..Len(cap_log) : ~cap_log[k].has_key}

\* C16: for a capture module configured raw, every event whose active
\* experiments expose no primary key yields aggregate data and no exception,
\* the degradation warning has been emitted once if there was such an event
\* and not at all otherwise, and raw data was produced only at events where
\* an active experiment exposes a primary key.
C16_RawDegradesOnce ==
    (cap_config # <<>> /\ cap_config.raw) =>
        /\ \A k \in NoKeyEvents : cap_log[k].kind = "aggregate"
        /\ cap_warnings = IF NoKeyEvents = {} THEN 0 ELSE 1
        /\ \A k \in 1..Len(cap_log) : cap_log[k].kind = "raw" => cap_log[k].has_key

\* a raw event, then two events without a primary key
C16_Witness ==
    /\ cap_config # <<>> /\ cap_config.raw
    /\ Len(cap_log) = 3
    /\ cap_log[1].kind = "raw"
    /\ NoKeyEvents = {2, 3}
    /\ cap_warnings = 1

\* --------------------------------------------------------------- C19
\* C19: get_primary_key_field() returns None on an experiment that is not
\* primary whatever key it declares; on a primary experiment it returns None
\* for no key, the label-prefixed field name for a 1-tuple, the
\* label-prefixed field[index] for a 2-tuple, and raises the configuration
\* error for a longer tuple.
C19_PrimaryKeyField ==
    \A k \in 1..Len(key_call) :
        LET e == key_call[k].e
            result == key_call[k].result
            n == Len(e.key.parts)
        IN  /\ ~e.primary => result = PyNone
            /\ e.primary =>
                /\ n = 0 => result = PyNone
                /\ n = 1 => result = PyStr(<<e.label, "_", e.key.parts[1]>>)
                /\ n = 2 => result = PyStr(<<e.label, "_", e.key.parts[1], "[",
                                             e.key.parts[2], "]">>)
                /\ n > 2 => result.outcome = "ExperimentConfigurationException"

\* --------------------------------------------------------------- C17
\* a threshold call on a record that has the field
ThresholdCalls ==
    {k \in 1..Len(pipe_last) :
        pipe_last[k].p.kind = "threshold" /\ pipe_last[k].before.has_field}

Logged(c, what) ==
    \E j \in 1..Len(c.logged) :
        c.logged[j] = [level |-> c.p.limit.level, what |-> what]

\* C17: for a threshold with bounds min and max, each optional: a value equal
\* to a bound logs nothing for that bound; a value one below min, or one
\* above max, logs a record at the configured level and, with exception set,
\* raises the post-process error; an absent bound logs nothing.
C17_ThresholdBoundary ==
    \A k \in ThresholdCalls :
        LET c == pipe_last[k]
            v == c.before.value
            lim == c.p.limit
        IN  /\ lim.min = <<>> => ~Logged(c, "under")
            /\ lim.max = <<>> => ~Logged(c, "over")
            /\ (lim.min # <<>> /\ v = lim.min[1]) => ~Logged(c, "under")
            /\ (lim.max # <<>> /\ v = lim.max[1]) => ~Logged(c, "over")
            /\ (lim.min # <<>> /\ v = lim.min[1] - 1) =>
                   /\ Logged(c, "under")
                   /\ lim.exception => c.outcome = "PostProcessorException"
            /\ (lim.max # <<>> /\ v = lim.max[1] + 1) =>
                   /\ Logged(c, "over")
                   /\ lim.exception => c.outcome = "PostProcessorException"

\* --------------------------------------------------------------- C18
\* C18: when a post-processor has returned None the event goes on: no
\* exception has left the pipeline, the record is the one from before that
\* post-processor, a warning was logged, and at the end every exporter got
\* the record.
C18_NoneKeepsRecord ==
    \A k \in 1..Len(pipe_last) :
        pipe_last[k].outcome = "None" =>
            /\ pipe_pc \in {"post", "export", "done"}
            /\ pipe_data = pipe_last[k].before
            /\ pipe_warnings >= 1
            /\ pipe_pc = "done" =>
                   /\ Len(pipe_exports) = pipe_config.exporters
                   /\ \A j \in 1..Len(pipe_exports) : pipe_exports[j] = pipe_data

\* --------------------------------------------------------------- C20
Resumed == sl_last.cmd \in {"r", "resume"}

\* C20: every time.sleep() of an interrupted wait ends at the wake time the
\* wait was called with; after a resume typed before the wake time the wait
\* goes on until that wake time and then returns; after a resume typed at or
\* after the wake time it has returned, with no exception; after a skip it
\* has returned; after any other text it is still at the prompt.
C20_InterruptedWait ==
    /\ sl_pc = "sleeping" => sl_until = sl_wake
    /\ (Resumed /\ sl_last.at < sl_wake) =>
           IF sl_now < sl_wake THEN sl_pc = "sleeping"
           ELSE sl_now = sl_wake /\ sl_pc \in {"sleeping", "returned"}
    /\ (Resumed /\ sl_last.at >= sl_wake) =>
           sl_pc = "returned" /\ sl_now = sl_last.at
    /\ sl_last.cmd \in {"n", "next"} => sl_pc = "returned" /\ sl_now = sl_last.at
    /\ sl_last.cmd = "x" => sl_pc = "prompt"

\* a wait interrupted twice, resumed one time unit before its wake time, has
\* returned at the wake time
C20_Witness ==
    /\ sl_pc = "returned"
    /\ sl_interrupts = 2
    /\ sl_last.cmd = "r" /\ sl_last.at = sl_wake - 1
    /\ sl_now = sl_wake


\* ---------------------------------------------------------------- C21
\* C21: once the stop command of an interrupted wait has raised out of
\* step(), no further step() is called and no leaf event is recorded, in
\* particular none for the interrupted step; main() is left only by the
\* exception, and by then stop() was called on every experiment stepped so
\* far.
C21_StopCancels ==
    /\ [](fault = "KeyboardInterrupt" =>
            /\ pc \in {"finally", "raised"}
            /\ \A i \in 1..Len(captures) :
                    captures[i] # CaptureEvent(Current, active_experiments,
                                               current_step)
            /\ pc = "raised" =>
                    \A n \in Nodes :
                        step_calls[n] > 0 => n \in Range(stop_calls))
    /\ [][fault = "KeyboardInterrupt" =>
            /\ UNCHANGED <<step_calls, captures, fault>>
            /\ pc' \in {pc, "raised"}]_vars

\* the wait of a leaf's second step is stopped, after the first step was
\* captured and a sibling was exhausted
C21_Witness ==
    /\ pc = "raised" /\ fault = "KeyboardInterrupt"
    /\ LET n == Current IN
        /\ IsLeaf(n) /\ parent[n] # 0 /\ step_calls[n] = 2
        /\ Len(LeafEvents(n)) = 1
        /\ \E m \in Nodes : /\ m # n /\ parent[m] = parent[n]
                             /\ reset_calls[m] > 0 /\ m \in Range(stop_calls)


\* ---------------------------------------------------------------- C22
\* a step() call on a SynchronisedTimeExperiment without sync_on_first that
\* has a next step
SynchronisedStep ==
    /\ exp.variant = "SynchronisedTimeExperiment" /\ ~exp.sync_on_first
    /\ exp'.next_step = exp.next_step + 1
    /\ exp.next_step < StepMaximum(exp)

\* C22: without sync_on_first the accumulator starts at the construction
\* time, and step i with delay d_i computes the wake time accumulator + d_i
\* and leaves the accumulator at that value whatever the clock reads; when
\* the wake time is not ahead of the clock the step returns at once, without
\* error, with the accumulator advanced all the same.
C22_AccumulatorAdvance ==
    [][SynchronisedStep =>
        LET d == IF exp.param.isList THEN exp.param.values[exp.next_step + 1]
                 ELSE exp.param.values[1]
        IN  /\ last'.outcome = "ok"
            /\ last'.wake = exp.timer.val + d
            /\ exp'.timer = PyFloat(exp.timer.val + d)
            /\ now' = IF last'.wake > now THEN last'.wake ELSE now]_vars

\* delays 1 and 2 from a start at time 1: the second step is taken at time
\* 5, after its wake time 4, and leaves the accumulator at 4
C22_Witness ==
    /\ exp.variant = "SynchronisedTimeExperiment" /\ ~exp.sync_on_first
    /\ exp.param = [isList |-> TRUE, values |-> <<1, 2>>]
    /\ exp.next_step = 2 /\ last.called /\ last.outcome = "ok"
    /\ last.wake = 4 /\ exp.timer = PyFloat(4) /\ now = 5


\* ---------------------------------------------------------------- C23
\* C23: get_state() of an experiment of any variant whose last step()
\* returned gives a mapping, and every key of it starts with the label
\* followed by '_'.
C23_StateKeysPrefixed ==
    (pc = "idle" /\ state_call.stepped) =>
        /\ state_call.result.outcome = "ok"
        /\ \A k \in state_call.result.keys :
                k[1] = state_call.label /\ k[2] = "_"


\* ---------------------------------------------------------------- C24
\* two entries of the experiment configuration carry the same label
CollidingLabels ==
    \E n, k \in Nodes : n # k /\ config_labels[n] = config_labels[k]

\* C24: building the forest from a configuration in which two experiments
\* carry the same label ends in a configuration error, and the stepping
\* loop is not entered.
C24_DuplicateLabelRejected ==
    [][(pc = "build" /\ CollidingLabels) =>
            pc' = "ExperimentConfigurationException"]_vars


\* ---------------------------------------------------------------- C25
\* C25: an export whose target file already exists ends in an error and
\* leaves the lines of that file as they were.
C25_ExistingFileKept ==
    [][(pipe_pc = "export" /\ pipe_files # <<>>) =>
            pipe_pc' = "FileExistsError" /\ pipe_files' = pipe_files]_vars


ConfiguredSteps ==
    IF exp.variant = "_IncrementExperiment" THEN exp.param.values[1]
    ELSE IF exp.param.isList THEN Len(exp.param.values)
    ELSE 1

\* C27: has_next() is true exactly when next_step is below the length of
\* the parameter list (1 for a scalar, the configured number for
\* _IncrementExperiment); next_step is 0 at construction and after reset()
\* and every step() adds 1, so exactly that many step() calls are made
\* before has_next() is false.
C27_HasNextCounts ==
    /\ [](pc = "idle" =>
            HasNext(exp.next_step, StepMaximum(exp))
                = (exp.next_step < ConfiguredSteps))
    /\ [][exp'.next_step \in {0, exp.next_step, exp.next_step + 1}]_vars

\* an _IncrementExperiment configured with 2, reset after its two steps and
\* stepped twice again
C27_Witness ==
    /\ exp.variant = "_IncrementExperiment" /\ exp.param.values = <<2>>
    /\ exp.next_step = 2 /\ last.called /\ last.had_next
    /\ ~HasNext(exp.next_step, StepMaximum(exp))

\* ---------------------------------------------------------------- C28
\* C28: reset() sets current_step and next_step to 0 and leaves the
\* parameter, the class, sync_on_first, the timer and the first-step flag
\* alone; every step() after it takes the index next_step, so the indices
\* 0, 1, ... are replayed.
C28_ResetFrame ==
    /\ [][(exp.next_step > 0 /\ exp'.next_step = 0) =>
            /\ exp'.current_step = 0
            /\ exp'.param = exp.param /\ exp'.variant = exp.variant
            /\ exp'.sync_on_first = exp.sync_on_first
            /\ exp'.timer = exp.timer /\ exp'.first = exp.first
            /\ now' = now]_vars
    /\ [][exp'.next_step = exp.next_step + 1 =>
            exp'.current_step = exp.next_step]_vars

\* a SynchronisedTimeExperiment reset after both steps, stepped once more:
\* index 0 again, the accumulator at 1 + 2 + 1
C28_Witness ==
    /\ exp.variant = "SynchronisedTimeExperiment" /\ ~exp.sync_on_first
    /\ exp.param = [isList |-> TRUE, values |-> <<1, 2>>]
    /\ exp.current_step = 0 /\ exp.next_step = 1
    /\ Truthy(exp.first) /\ exp.timer.val >= 4

\* ---------------------------------------------------------------- C29
\* C29: when a ThresholdPostProcessor raises PostProcessorException on the
\* record of a leaf event, the exception leaves the pipeline, no exporter
\* is called for that event, and the lines exported by earlier leaf events
\* stay as they are.
C29_RaiseSkipsExport ==
    /\ []((pipe_last # <<>> /\ pipe_last[1].outcome = "PostProcessorException") =>
            pipe_pc = "PostProcessorException" /\ pipe_exports = <<>>)
    /\ [][(pipe_pc' = "PostProcessorException"
            \/ pipe_pc = "PostProcessorException") =>
                UNCHANGED <<pipe_files, pipe_exports>>]_vars

\* the second post-processor raises on a record over its maximum, with two
\* exporters loaded and earlier lines in the file
C29_Witness ==
    /\ pipe_pc = "PostProcessorException" /\ pipe_index = 1
    /\ pipe_config.exporters = 2 /\ pipe_files = <<"earlier">>
    /\ pipe_last[1].p.kind = "threshold" /\ pipe_last[1].p.limit.exception
    /\ OverMax(pipe_last[1].p.limit, pipe_last[1].before.value)


\* ---------------------------------------------------------------- C30
\* C30: the loop thread tests the stop signal before every update step: a
\* test made with the signal set ends the thread, so only the update step
\* already past the test can still write an output; and once the signal is
\* set a started thread comes to its end by itself.
C30_CooperativeStop ==
    /\ [][(thread = "test" /\ stop_set) => thread' \in {"test", "exited"}]_vars
    /\ [][(stop_set /\ loop_written' # loop_written) =>
            thread = "read" /\ thread' = "test"]_vars
    /\ ((stop_set /\ thread # "unstarted") ~> Joined(thread))

\* stop(block=False) returned while the thread was between two update
\* steps; the thread left at its next test
C30_Witness ==
    /\ stop_set /\ ~stopper.block /\ stopper.pc = "returned"
    /\ stopper.at = "started" /\ thread = "exited" /\ updates = 0


C32_IndicesInRange ==
    /\ \A n \in Nodes :
        /\ 0 <= next_step[n] /\ next_step[n] <= step_maximum[n]
        /\ 0 <= current_step[n]
        /\ step_calls[n] > 0 => current_step[n] < step_maximum[n]
    /\ \A i, j \in 1..Len(experiment_nodes) :
            i # j => experiment_nodes[i] # experiment_nodes[j]

\* a chain of three nodes on the stack, the innermost at its last index
C32_Witness ==
    /\ pc = "loop" /\ Len(experiment_nodes) = 3
    /\ step_maximum[Current] = 2
    /\ next_step[Current] = 2 /\ current_step[Current] = 1
    /\ \E n \in Nodes : reset_calls[n] > 0

\* ---------------------------------------------------------------- C33
\* C33: an experiment enters running_experiments at its first step() and
\* at no other time; when main() is left, normally or by an exception,
\* stop() was called once on each entry in that order, so once on each
\* experiment stepped and on no other.
C33_StopOncePerStepped ==
    /\ [](pc \in {"finished", "raised"} =>
            /\ stop_calls = running_experiments
            /\ Range(stop_calls) = {n \in Nodes : step_calls[n] > 0}
            /\ \A i, j \in 1..Len(stop_calls) :
                    i # j => stop_calls[i] # stop_calls[j])
    /\ [][\/ running_experiments' = running_experiments
          \/ \E n \in Nodes :
                /\ step_calls[n] = 0 /\ step_calls'[n] = 1
                /\ running_experiments' = Append(running_experiments, n)]_vars

\* a normal end after all three experiments were stepped, in an order of
\* first steps that is not the order of the nodes
C33_Witness ==
    /\ pc = "finished" /\ Len(stop_calls) = 3
    /\ stop_calls # <<1, 2, 3>>
    /\ \A n \in Nodes : step_calls[n] > 0


\* ---------------------------------------------------------------- C34
\* C34: whenever no set_output() call is in progress and the loop thread is
\* outside its update step, get_output() (_out_last) is the value the
\* output function was called with last.
C34_LastOutputAgrees ==
    (/\ manual.op = "none" /\ other_call.op = "none"
     /\ thread \notin {"locked", "read"}
     /\ hardware # <<>>)
        => out_last = hardware


\* ---------------------------------------------------------------- C35
\* C35: a thread that has left the body of "with c.get_lock()", by its end
\* or by an exception raised in it, does not hold the lock of c.
C35_LockReleasedOnExit ==
    \A t \in Threads :
        conn[t].pc \in {"left", "body raised"} => parent_lock.owner # t


\* ---------------------------------------------------------------- C36
\* C36: a query() call that ends by re-raising the transient exception of
\* the transport read has made at most N transport reads, at most N - 1
\* connector resets and at most N writes of the query data, N the
\* connector's _retry_attempt.
C36_QueryAttemptsBounded ==
    query.pc = "raised" =>
        /\ query.reads <= query.retry_attempt
        /\ query.resets <= query.retry_attempt - 1
        /\ query.writes <= query.retry_attempt

\* ---------------------------------------------------------------- C37
\* C37: a call of a retry-wrapped function that has ended has called the
\* function at least once, and ended by its return or by its exception.
C37_CalledAtLeastOnce ==
    rpc \in {"returned", "raised", "fell_off"} =>
        /\ calls >= 1
        /\ rpc \in {"returned", "raised"}


\* ---------------------------------------------------------------- C38
\* C38: after any number of instantiations the defaults entry of the class
\* is as it was loaded, every instance works with the defaults overridden
\* by its own parameters only, and a stepped experiment has as many steps
\* as its own parameter list is long.
C38_InstancesIndependent ==
    /\ global_module_config.entry = loaded_defaults
    /\ \A i \in 1..Len(instances) :
        /\ InstanceConfig(i) = DictUpdate(loaded_defaults, instances[i].declared)
        /\ instances[i].kind = "experiment" =>
                Len(InstanceConfig(i).delay[1]) = Len(instances[i].declared.delay[1])


\* ---------------------------------------------------------------- C39
\* C39: a capture module configured raw returns raw data at every leaf
\* event whose active experiments expose a primary key, whatever the
\* earlier events of the run were.
C39_RawAtEveryKeyEvent ==
    (cap_config # <<>> /\ cap_config.raw) =>
        \A k \in 1..Len(cap_log) : cap_log[k].has_key => cap_log[k].kind = "raw"


\* ---------------------------------------------------------------- C40
\* a step() of a SynchronisedTimeExperiment with sync_on_first, called
\* while has_next() holds, and the delay it takes
SyncOnFirstStep ==
    /\ exp.variant = "SynchronisedTimeExperiment" /\ exp.sync_on_first
    /\ ~resumed
    /\ exp'.next_step = exp.next_step + 1
    /\ exp.next_step < StepMaximum(exp)

SyncOnFirstDelay ==
    IF exp.param.isList THEN exp.param.values[exp.next_step + 1]
    ELSE exp.param.values[1]

\* C40: with sync_on_first the first step() made on the experiment starts
\* from the clock: wake time and accumulator are now + d. Every later
\* step(), the first one after a reset() included, starts from the
\* accumulator: both are accumulator + d whatever the clock reads. reset()
\* leaves the accumulator and the first-step flag as they are.
C40_AnchoredOnce ==
    /\ [][SyncOnFirstStep =>
            /\ last'.outcome = "ok"
            /\ last'.wake = (IF last.called THEN exp.timer.val ELSE now)
                                + SyncOnFirstDelay
            /\ exp'.timer = PyFloat(last'.wake)
            /\ Truthy(exp'.first)]_vars
    /\ [][(/\ exp.variant = "SynchronisedTimeExperiment" /\ exp.sync_on_first
           /\ ~resumed /\ ~resumed'
           /\ exp.next_step > 0 /\ exp'.next_step = 0) =>
            exp'.timer = exp.timer /\ exp'.first = exp.first]_vars

\* anchored at time 0, stepped with delays 1 and 2, reset, and stepped
\* again at time 5: the accumulator is 0 + 1 + 2 + 1, not 5 + 1
C40_Witness ==
    /\ exp.variant = "SynchronisedTimeExperiment" /\ exp.sync_on_first
    /\ exp.param = [isList |-> TRUE, values |-> <<1, 2>>]
    /\ exp.current_step = 0 /\ exp.next_step = 1
    /\ last.called /\ last.outcome = "ok" /\ last.wake = 4
    /\ exp.timer = PyFloat(4) /\ now = 5 /\ ~resumed

====
